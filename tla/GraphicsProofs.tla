--------------------------- MODULE GraphicsProofs ---------------------------
(***************************************************************************)
(* Theorems about GraphicsPipelines, for any set of pipelines, of state     *)
(* vectors and of draws, and any number of command lists and compile jobs,  *)
(* and about RenderPass, for any views, render targets and calls.           *)
(***************************************************************************)
EXTENDS GraphicsPipelines, RenderPass, FiniteSetTheorems, SequenceTheorems,
        WellFoundedInduction, NaturalsInduction, TLAPS

Lists == [pipelines : SUBSET Pipelines, base : SUBSET Pipelines]

JobRecords == [pipeline : Pipelines, state : States, at : {"queued", "compile", "release", "done"}]

\* The users of a pipeline: command lists in flight, and jobs that are not done.
InLists(q, g) == {i \in 1 .. Len(q) : g \in q[i].pipelines}

InJobs(q, g) == {i \in 1 .. Len(q) : q[i].pipeline = g /\ q[i].at # "done"}

Uses(l, q, r, g) ==
  (IF g \in l.pipelines THEN 1 ELSE 0) + Cardinality(InLists(q, g)) + Cardinality(InJobs(r, g))

\* Pipelines that hold the library.
LinkedPipelines == {g \in Pipelines : basePipeline[g] # "none"}

DataInv ==
  /\ TypeOK
  /\ current \in Lists /\ inFlight \in Seq(Lists) /\ jobs \in Seq(JobRecords)
  /\ \A i \in 1 .. Len(inFlight) : inFlight[i].base \subseteq inFlight[i].pipelines
  /\ context # "idle" => /\ bound \in Pipelines \X States
                         /\ bound[1] \in current.pipelines

\* Use counts are exact.
UseInv == \A g \in Pipelines : useCount[g] = Uses(current, inFlight, jobs, g)

LibraryInv ==
  /\ IsFiniteSet(LinkedPipelines)
  /\ library.useCount = Cardinality(LinkedPipelines)
  /\ library.handle <=> library.useCount > 0
  /\ library.useCount > 0 => library.compiledOnce

\* Somebody who uses the pipeline is going to optimize the instance.
HasJob(q, g, s, at) ==
  \E i \in 1 .. Len(q) : q[i].pipeline = g /\ q[i].state = s /\ q[i].at = at

WillCompile(g, s) ==
  IF instance[g][s].isCompiling THEN HasJob(jobs, g, s, "compile")
  ELSE (context = "job" /\ bound = <<g, s>>) \/ HasJob(jobs, g, s, "queued")

InstanceInv ==
  \A g \in Pipelines, s \in States :
    /\ instance[g][s].base => basePipeline[g] = "linked"
    /\ instance[g][s].exists => instance[g][s].base \/ instance[g][s].fast
    /\ instance[g][s].exists /\ ~instance[g][s].fast => WillCompile(g, s)

RecordedInv ==
  /\ \A g \in current.base : basePipeline[g] = "linked"
  /\ \A i \in 1 .. Len(inFlight) : \A g \in inFlight[i].base : basePipeline[g] = "linked"

IInv == DataInv /\ UseInv /\ LibraryInv /\ InstanceInv /\ RecordedInv

-----------------------------------------------------------------------------
(* Counting the places of a sequence                                       *)

LEMMA IndexSets ==
  ASSUME NEW n \in Nat, NEW S \in SUBSET (1 .. n)
  PROVE  IsFiniteSet(S) /\ Cardinality(S) \in Nat
<1>1. IsFiniteSet(1 .. n)
  BY FS_Interval
<1> QED
  BY <1>1, FS_Subset, FS_CardinalityType

LEMMA IndexAppend ==
  ASSUME NEW n \in Nat, NEW S \in SUBSET (1 .. n), NEW T \in SUBSET (1 .. n + 1),
         \A i \in 1 .. n : i \in T <=> i \in S
  PROVE  Cardinality(T) = Cardinality(S) + (IF n + 1 \in T THEN 1 ELSE 0)
<1>1. IsFiniteSet(S) /\ Cardinality(S) \in Nat
  BY IndexSets
<1>2. \A i : i \in 1 .. n + 1 <=> i \in 1 .. n \/ i = n + 1
  OBVIOUS
<1>3. n + 1 \notin 1 .. n
  OBVIOUS
<1>4. \A i : i \in T => i \in S \/ i = n + 1
  BY <1>2
<1>5. \A i : i \in S => i \in T /\ i # n + 1
  BY <1>3
<1>6. CASE n + 1 \in T
  <2>1. T = S \cup {n + 1} /\ n + 1 \notin S
    BY <1>4, <1>5, <1>6
  <2> QED
    BY <1>1, <1>6, <2>1, FS_AddElement
<1>7. CASE n + 1 \notin T
  <2>1. T = S
    BY <1>4, <1>5, <1>7
  <2> QED
    BY <1>1, <1>7, <2>1
<1> QED
  BY <1>6, <1>7

LEMMA IndexTail ==
  ASSUME NEW n \in Nat, NEW S \in SUBSET (1 .. n + 1), NEW T \in SUBSET (1 .. n),
         \A i \in 1 .. n : i \in T <=> i + 1 \in S
  PROVE  Cardinality(S) = Cardinality(T) + (IF 1 \in S THEN 1 ELSE 0)
<1> DEFINE A == S \ {1}
           f == [i \in T |-> i + 1]
<1>1. /\ IsFiniteSet(S) /\ Cardinality(S) \in Nat
      /\ IsFiniteSet(T) /\ Cardinality(T) \in Nat
  BY IndexSets
<1>2. \A j \in A : j - 1 \in T
  <2>1. ASSUME NEW j \in A PROVE j - 1 \in 1 .. n /\ (j - 1) + 1 = j
    OBVIOUS
  <2> QED
    BY <2>1
<1>3. f \in Bijection(T, A)
  <2>1. f \in [T -> A]
    OBVIOUS
  <2>2. \A i, j \in T : f[i] = f[j] => i = j
    OBVIOUS
  <2>3. \A j \in A : \E i \in T : f[i] = j
    <3>1. ASSUME NEW j \in A PROVE j - 1 \in T /\ f[j - 1] = j
      BY <1>2
    <3> QED
      BY <3>1
  <2> QED
    BY <2>1, <2>2, <2>3 DEF Bijection, Injection, Surjection, IsInjective
<1>4. Cardinality(A) = Cardinality(T)
  <2>1. ExistsBijection(T, A)
    BY <1>3 DEF ExistsBijection
  <2> QED
    BY <1>1, <2>1, FS_Bijection
<1>5. Cardinality(A) = IF 1 \in S THEN Cardinality(S) - 1 ELSE Cardinality(S)
  BY <1>1, FS_RemoveElement
<1> QED
  BY <1>1, <1>4, <1>5

LEMMA IndexChange ==
  ASSUME NEW n \in Nat, NEW S \in SUBSET (1 .. n), NEW T \in SUBSET (1 .. n), NEW k \in 1 .. n,
         \A i \in 1 .. n : i # k => (i \in T <=> i \in S)
  PROVE  /\ k \in S /\ k \notin T => Cardinality(T) = Cardinality(S) - 1
         /\ (k \in S <=> k \in T) => Cardinality(T) = Cardinality(S)
<1>1. IsFiniteSet(S) /\ Cardinality(S) \in Nat
  BY IndexSets
<1>2. \A i : i # k => (i \in T <=> i \in S)
  OBVIOUS
<1>3. k \in S /\ k \notin T => T = S \ {k}
  BY <1>2
<1>4. (k \in S <=> k \in T) => T = S
  BY <1>2
<1> QED
  BY <1>1, <1>3, <1>4, FS_RemoveElement

-----------------------------------------------------------------------------
(* Users of a pipeline                                                     *)

LEMMA ListsFinite ==
  ASSUME NEW q \in Seq(Lists), NEW g
  PROVE  IsFiniteSet(InLists(q, g)) /\ Cardinality(InLists(q, g)) \in Nat
<1>1. Len(q) \in Nat /\ InLists(q, g) \in SUBSET (1 .. Len(q))
  BY DEF InLists
<1> QED
  BY <1>1, IndexSets

LEMMA JobsFinite ==
  ASSUME NEW q \in Seq(JobRecords), NEW g
  PROVE  IsFiniteSet(InJobs(q, g)) /\ Cardinality(InJobs(q, g)) \in Nat
<1>1. Len(q) \in Nat /\ InJobs(q, g) \in SUBSET (1 .. Len(q))
  BY DEF InJobs
<1> QED
  BY <1>1, IndexSets

LEMMA ListsAppend ==
  ASSUME NEW q \in Seq(Lists), NEW l \in Lists, NEW g
  PROVE  /\ Append(q, l) \in Seq(Lists) /\ Len(Append(q, l)) = Len(q) + 1
         /\ \A i \in 1 .. Len(q) : Append(q, l)[i] = q[i]
         /\ Append(q, l)[Len(q) + 1] = l
         /\ Cardinality(InLists(Append(q, l), g))
              = Cardinality(InLists(q, g)) + (IF g \in l.pipelines THEN 1 ELSE 0)
<1> DEFINE r == Append(q, l)
           n == Len(q)
           S == InLists(q, g)
           T == InLists(r, g)
<1>1. n \in Nat /\ r \in Seq(Lists) /\ Len(r) = n + 1
  OBVIOUS
<1>2. (\A i \in 1 .. n : r[i] = q[i]) /\ r[n + 1] = l
  OBVIOUS
<1>3. S \in SUBSET (1 .. n) /\ T \in SUBSET (1 .. n + 1)
  BY <1>1 DEF InLists
<1>4. \A i \in 1 .. n : i \in T <=> i \in S
  BY <1>1, <1>2 DEF InLists
<1>5. n + 1 \in T <=> g \in l.pipelines
  BY <1>1, <1>2 DEF InLists
<1>6. Cardinality(T) = Cardinality(S) + (IF n + 1 \in T THEN 1 ELSE 0)
  <2> HIDE DEF n, S, T
  <2> QED
    BY <1>1, <1>3, <1>4, IndexAppend
<1> QED
  BY <1>1, <1>2, <1>5, <1>6

LEMMA ListsTail ==
  ASSUME NEW q \in Seq(Lists), q # <<>>, NEW g
  PROVE  /\ Tail(q) \in Seq(Lists) /\ Len(q) >= 1 /\ Head(q) = q[1] /\ Head(q) \in Lists
         /\ Len(Tail(q)) = Len(q) - 1
         /\ \A i \in 1 .. Len(q) - 1 : Tail(q)[i] = q[i + 1]
         /\ Cardinality(InLists(q, g))
              = Cardinality(InLists(Tail(q), g)) + (IF g \in Head(q).pipelines THEN 1 ELSE 0)
<1>1. /\ Len(q) \in Nat /\ Len(q) >= 1 /\ Head(q) = q[1] /\ Head(q) \in Lists
      /\ Tail(q) \in Seq(Lists) /\ Len(Tail(q)) = Len(q) - 1
  OBVIOUS
<1>2. \A i \in 1 .. Len(q) - 1 : Tail(q)[i] = q[i + 1]
  OBVIOUS
<1> DEFINE r == Tail(q)
           n == Len(q) - 1
           S == InLists(q, g)
           T == InLists(r, g)
<1>3. n \in Nat /\ S \in SUBSET (1 .. n + 1) /\ T \in SUBSET (1 .. n)
  BY <1>1 DEF InLists
<1>4. \A i \in 1 .. n : i \in T <=> i + 1 \in S
  BY <1>1, <1>2 DEF InLists
<1>5. 1 \in S <=> g \in Head(q).pipelines
  BY <1>1 DEF InLists
<1>6. Cardinality(S) = Cardinality(T) + (IF 1 \in S THEN 1 ELSE 0)
  <2> HIDE DEF n, S, T
  <2> QED
    BY <1>3, <1>4, IndexTail
<1> QED
  BY <1>1, <1>2, <1>5, <1>6

LEMMA ListsShrink ==
  ASSUME NEW q \in Seq(Lists), q # <<>>, NEW l \in Lists, NEW g
  PROVE  /\ [q EXCEPT ![1] = l] \in Seq(Lists) /\ Len([q EXCEPT ![1] = l]) = Len(q)
         /\ [q EXCEPT ![1] = l][1] = l
         /\ \A i \in 2 .. Len(q) : [q EXCEPT ![1] = l][i] = q[i]
         /\ g \in q[1].pipelines /\ g \notin l.pipelines
              => Cardinality(InLists([q EXCEPT ![1] = l], g)) = Cardinality(InLists(q, g)) - 1
         /\ (g \in q[1].pipelines <=> g \in l.pipelines)
              => Cardinality(InLists([q EXCEPT ![1] = l], g)) = Cardinality(InLists(q, g))
<1> DEFINE r == [q EXCEPT ![1] = l]
           n == Len(q)
           S == InLists(q, g)
           T == InLists(r, g)
<1>1. n \in Nat /\ 1 \in 1 .. n
  OBVIOUS
<1>2. r \in Seq(Lists) /\ Len(r) = n
  BY <1>1, ExceptSeq
<1>3. r[1] = l /\ \A i \in 2 .. n : r[i] = q[i]
  BY <1>1
<1>4. S \in SUBSET (1 .. n) /\ T \in SUBSET (1 .. n)
  BY <1>2 DEF InLists
<1>5. \A i \in 1 .. n : i # 1 => (i \in T <=> i \in S)
  BY <1>2, <1>3 DEF InLists
<1>6. (1 \in S <=> g \in q[1].pipelines) /\ (1 \in T <=> g \in l.pipelines)
  BY <1>1, <1>2, <1>3 DEF InLists
<1>7. /\ 1 \in S /\ 1 \notin T => Cardinality(T) = Cardinality(S) - 1
      /\ (1 \in S <=> 1 \in T) => Cardinality(T) = Cardinality(S)
  <2> HIDE DEF n, S, T
  <2>1. PICK k \in 1 .. n : k = 1
    BY <1>1
  <2>2. /\ k \in S /\ k \notin T => Cardinality(T) = Cardinality(S) - 1
        /\ (k \in S <=> k \in T) => Cardinality(T) = Cardinality(S)
    <3>1. \A i \in 1 .. n : i # k => (i \in T <=> i \in S)
      BY <1>5, <2>1
    <3> QED
      BY <1>1, <1>4, <3>1, IndexChange
  <2> QED
    BY <2>1, <2>2
<1> QED
  BY <1>1, <1>2, <1>3, <1>6, <1>7

LEMMA JobsAppend ==
  ASSUME NEW q \in Seq(JobRecords), NEW j \in JobRecords, j.at # "done", NEW g
  PROVE  /\ Append(q, j) \in Seq(JobRecords) /\ Len(Append(q, j)) = Len(q) + 1
         /\ \A i \in 1 .. Len(q) : Append(q, j)[i] = q[i]
         /\ Append(q, j)[Len(q) + 1] = j
         /\ Cardinality(InJobs(Append(q, j), g))
              = Cardinality(InJobs(q, g)) + (IF g = j.pipeline THEN 1 ELSE 0)
<1> DEFINE r == Append(q, j)
           n == Len(q)
           S == InJobs(q, g)
           T == InJobs(r, g)
<1>1. n \in Nat /\ r \in Seq(JobRecords) /\ Len(r) = n + 1
  OBVIOUS
<1>2. (\A i \in 1 .. n : r[i] = q[i]) /\ r[n + 1] = j
  OBVIOUS
<1>3. S \in SUBSET (1 .. n) /\ T \in SUBSET (1 .. n + 1)
  BY <1>1 DEF InJobs
<1>4. \A i \in 1 .. n : i \in T <=> i \in S
  BY <1>1, <1>2 DEF InJobs
<1>5. n + 1 \in T <=> g = j.pipeline
  BY <1>1, <1>2 DEF InJobs
<1>6. Cardinality(T) = Cardinality(S) + (IF n + 1 \in T THEN 1 ELSE 0)
  <2> HIDE DEF n, S, T
  <2> QED
    BY <1>1, <1>3, <1>4, IndexAppend
<1> QED
  BY <1>1, <1>2, <1>5, <1>6

LEMMA JobsStep ==
  ASSUME NEW q \in Seq(JobRecords), NEW k \in 1 .. Len(q), NEW j \in JobRecords,
         j.pipeline = q[k].pipeline, q[k].at # "done", NEW g
  PROVE  /\ [q EXCEPT ![k] = j] \in Seq(JobRecords) /\ Len([q EXCEPT ![k] = j]) = Len(q)
         /\ [q EXCEPT ![k] = j][k] = j
         /\ \A i \in 1 .. Len(q) : i # k => [q EXCEPT ![k] = j][i] = q[i]
         /\ Cardinality(InJobs([q EXCEPT ![k] = j], g))
              = Cardinality(InJobs(q, g)) - (IF g = q[k].pipeline /\ j.at = "done" THEN 1 ELSE 0)
<1> DEFINE r == [q EXCEPT ![k] = j]
           n == Len(q)
           S == InJobs(q, g)
           T == InJobs(r, g)
<1>1. n \in Nat /\ k \in 1 .. n /\ q[k] \in JobRecords
  OBVIOUS
<1>4. r \in Seq(JobRecords) /\ Len(r) = n
  BY <1>1, ExceptSeq
<1>5. r[k] = j /\ \A i \in 1 .. n : i # k => r[i] = q[i]
  BY <1>1
<1>7. S \in SUBSET (1 .. n) /\ T \in SUBSET (1 .. n)
  BY <1>4 DEF InJobs
<1>8. \A i \in 1 .. n : i # k => (i \in T <=> i \in S)
  BY <1>4, <1>5 DEF InJobs
<1>9. (k \in S <=> g = q[k].pipeline) /\ (k \in T <=> g = q[k].pipeline /\ j.at # "done")
  BY <1>1, <1>4, <1>5 DEF InJobs
<1>10. /\ k \in S /\ k \notin T => Cardinality(T) = Cardinality(S) - 1
       /\ (k \in S <=> k \in T) => Cardinality(T) = Cardinality(S)
  <2> HIDE DEF n, S, T
  <2> QED
    BY <1>1, <1>7, <1>8, IndexChange
<1>11. Cardinality(S) \in Nat
  BY <1>1, <1>7, IndexSets
<1> QED
  BY <1>4, <1>5, <1>9, <1>10, <1>11

LEMMA UsesFacts ==
  ASSUME NEW l \in Lists, NEW q \in Seq(Lists), NEW r \in Seq(JobRecords), NEW g
  PROVE  /\ Uses(l, q, r, g) \in Nat
         /\ Uses(l, q, r, g) = 0 =>
              /\ g \notin l.pipelines
              /\ \A i \in 1 .. Len(q) : g \notin q[i].pipelines
              /\ \A i \in 1 .. Len(r) : r[i].pipeline = g => r[i].at = "done"
<1> DEFINE c == IF g \in l.pipelines THEN 1 ELSE 0
           m == Cardinality(InLists(q, g))
           n == Cardinality(InJobs(r, g))
<1>1. IsFiniteSet(InLists(q, g)) /\ m \in Nat /\ IsFiniteSet(InJobs(r, g)) /\ n \in Nat
  BY ListsFinite, JobsFinite
<1>2. c \in {0, 1} /\ Uses(l, q, r, g) = c + m + n
  BY DEF Uses
<1>3. /\ Uses(l, q, r, g) \in Nat
      /\ Uses(l, q, r, g) = 0 => c = 0 /\ m = 0 /\ n = 0
  <2> HIDE DEF c, m, n
  <2> QED
    BY <1>1, <1>2
<1>4. m = 0 => InLists(q, g) = {}
  BY <1>1, FS_EmptySet
<1>5. n = 0 => InJobs(r, g) = {}
  BY <1>1, FS_EmptySet
<1>6. c = 0 => g \notin l.pipelines
  OBVIOUS
<1>7. InLists(q, g) = {} => \A i \in 1 .. Len(q) : g \notin q[i].pipelines
  BY DEF InLists
<1>8. InJobs(r, g) = {} => \A i \in 1 .. Len(r) : r[i].pipeline = g => r[i].at = "done"
  BY DEF InJobs
<1> QED
  BY <1>3, <1>4, <1>5, <1>6, <1>7, <1>8

LEMMA UsesTrack ==
  ASSUME NEW l \in Lists, NEW q \in Seq(Lists), NEW r \in Seq(JobRecords), NEW g, NEW h,
         g \notin l.pipelines, NEW l1, l1.pipelines = l.pipelines \cup {g}
  PROVE  Uses(l1, q, r, h) = Uses(l, q, r, h) + (IF h = g THEN 1 ELSE 0)
<1> DEFINE m == Cardinality(InLists(q, h))
           n == Cardinality(InJobs(r, h))
           c == IF h \in l.pipelines THEN 1 ELSE 0
           c1 == IF h \in l1.pipelines THEN 1 ELSE 0
           k == IF h = g THEN 1 ELSE 0
<1>1. m \in Nat /\ n \in Nat
  BY ListsFinite, JobsFinite
<1>2. c1 = c + k /\ c \in Nat /\ k \in Nat
  OBVIOUS
<1>3. Uses(l1, q, r, h) = c1 + m + n /\ Uses(l, q, r, h) = c + m + n
  BY DEF Uses
<1> HIDE DEF m, n, c, c1, k
<1>4. Uses(l1, q, r, h) = Uses(l, q, r, h) + k
  BY <1>1, <1>2, <1>3
<1> QED
  BY <1>4 DEF k

LEMMA UsesFlush ==
  ASSUME NEW l \in Lists, NEW q \in Seq(Lists), NEW r \in Seq(JobRecords), NEW h
  PROVE  Uses(Unused, Append(q, l), r, h) = Uses(l, q, r, h)
<1> DEFINE m == Cardinality(InLists(q, h))
           m1 == Cardinality(InLists(Append(q, l), h))
           n == Cardinality(InJobs(r, h))
           c == IF h \in l.pipelines THEN 1 ELSE 0
<1>1. m \in Nat /\ n \in Nat /\ m1 = m + c /\ c \in Nat
  BY ListsFinite, JobsFinite, ListsAppend
<1>2. Uses(Unused, Append(q, l), r, h) = 0 + m1 + n /\ Uses(l, q, r, h) = c + m + n
  BY DEF Uses, Unused
<1> HIDE DEF m, m1, n, c
<1> QED
  BY <1>1, <1>2

LEMMA UsesQueue ==
  ASSUME NEW l \in Lists, NEW q \in Seq(Lists), NEW r \in Seq(JobRecords), NEW h,
         NEW j \in JobRecords, j.at # "done"
  PROVE  Uses(l, q, Append(r, j), h) = Uses(l, q, r, h) + (IF h = j.pipeline THEN 1 ELSE 0)
<1> DEFINE m == Cardinality(InLists(q, h))
           n == Cardinality(InJobs(r, h))
           n1 == Cardinality(InJobs(Append(r, j), h))
           c == IF h \in l.pipelines THEN 1 ELSE 0
           k == IF h = j.pipeline THEN 1 ELSE 0
<1>1. m \in Nat /\ n \in Nat /\ n1 = n + k /\ c \in Nat /\ k \in Nat
  BY ListsFinite, JobsFinite, JobsAppend
<1>2. Uses(l, q, Append(r, j), h) = c + m + n1 /\ Uses(l, q, r, h) = c + m + n
  BY DEF Uses
<1> HIDE DEF m, n, n1, c, k
<1>3. Uses(l, q, Append(r, j), h) = Uses(l, q, r, h) + k
  BY <1>1, <1>2
<1> QED
  BY <1>3 DEF k

LEMMA UsesStep ==
  ASSUME NEW l \in Lists, NEW q \in Seq(Lists), NEW r \in Seq(JobRecords), NEW h,
         NEW i \in 1 .. Len(r), NEW j \in JobRecords, j.pipeline = r[i].pipeline, r[i].at # "done"
  PROVE  Uses(l, q, [r EXCEPT ![i] = j], h)
           = Uses(l, q, r, h) - (IF h = r[i].pipeline /\ j.at = "done" THEN 1 ELSE 0)
<1> DEFINE m == Cardinality(InLists(q, h))
           n == Cardinality(InJobs(r, h))
           n1 == Cardinality(InJobs([r EXCEPT ![i] = j], h))
           c == IF h \in l.pipelines THEN 1 ELSE 0
           k == IF h = r[i].pipeline /\ j.at = "done" THEN 1 ELSE 0
<1>1. n1 = n - k
  BY JobsStep
<1>2. m \in Nat /\ n \in Nat /\ c \in Nat /\ k \in Nat
  BY ListsFinite, JobsFinite
<1>3. Uses(l, q, [r EXCEPT ![i] = j], h) = c + m + n1 /\ Uses(l, q, r, h) = c + m + n
  BY DEF Uses
<1> HIDE DEF m, n, n1, c, k
<1>4. Uses(l, q, [r EXCEPT ![i] = j], h) = Uses(l, q, r, h) - k
  BY <1>1, <1>2, <1>3
<1> QED
  BY <1>4 DEF k

LEMMA UsesShrink ==
  ASSUME NEW l \in Lists, NEW q \in Seq(Lists), NEW r \in Seq(JobRecords), NEW h,
         q # <<>>, NEW g, g \in q[1].pipelines, NEW rest \in Lists, rest.pipelines = q[1].pipelines \ {g}
  PROVE  Uses(l, [q EXCEPT ![1] = rest], r, h) = Uses(l, q, r, h) - (IF h = g THEN 1 ELSE 0)
<1> DEFINE m == Cardinality(InLists(q, h))
           m1 == Cardinality(InLists([q EXCEPT ![1] = rest], h))
           n == Cardinality(InJobs(r, h))
           c == IF h \in l.pipelines THEN 1 ELSE 0
           k == IF h = g THEN 1 ELSE 0
<1>1. m \in Nat /\ n \in Nat /\ c \in Nat /\ k \in Nat
  BY ListsFinite, JobsFinite
<1>2. /\ h \in q[1].pipelines /\ h \notin rest.pipelines => m1 = m - 1
      /\ (h \in q[1].pipelines <=> h \in rest.pipelines) => m1 = m
  BY ListsShrink
<1>3. m1 = m - k
  BY <1>1, <1>2
<1>4. /\ Uses(l, [q EXCEPT ![1] = rest], r, h) = c + m1 + n
      /\ Uses(l, q, r, h) = c + m + n
  BY DEF Uses
<1> HIDE DEF m, m1, n, c, k
<1>5. Uses(l, [q EXCEPT ![1] = rest], r, h) = Uses(l, q, r, h) - k
  BY <1>1, <1>3, <1>4
<1> QED
  BY <1>5 DEF k

LEMMA UsesTail ==
  ASSUME NEW l \in Lists, NEW q \in Seq(Lists), NEW r \in Seq(JobRecords), NEW h, q # <<>>
  PROVE  Uses(l, q, r, h) = Uses(l, Tail(q), r, h) + (IF h \in q[1].pipelines THEN 1 ELSE 0)
<1> DEFINE m == Cardinality(InLists(q, h))
           m1 == Cardinality(InLists(Tail(q), h))
           n == Cardinality(InJobs(r, h))
           c == IF h \in l.pipelines THEN 1 ELSE 0
           k == IF h \in q[1].pipelines THEN 1 ELSE 0
<1>1. n \in Nat /\ c \in Nat /\ k \in Nat
  BY JobsFinite
<1>2. m = m1 + k /\ Tail(q) \in Seq(Lists)
  BY ListsTail
<1>3. m1 \in Nat
  BY <1>2, ListsFinite
<1>4. Uses(l, Tail(q), r, h) = c + m1 + n /\ Uses(l, q, r, h) = c + m + n
  BY DEF Uses
<1> HIDE DEF m, m1, n, c, k
<1>5. Uses(l, q, r, h) = Uses(l, Tail(q), r, h) + k
  BY <1>1, <1>2, <1>3, <1>4
<1> QED
  BY <1>5 DEF k

-----------------------------------------------------------------------------
(* The initial state                                                       *)

LEMMA NoUsers ==
  ASSUME NEW g
  PROVE  Cardinality(InLists(<<>>, g)) = 0 /\ Cardinality(InJobs(<<>>, g)) = 0
<1>1. InLists(<<>>, g) = {} /\ InJobs(<<>>, g) = {}
  BY DEF InLists, InJobs
<1> QED
  BY <1>1, FS_EmptySet

LEMMA InitInv == Init => IInv
<1> SUFFICES ASSUME Init PROVE IInv
  OBVIOUS
<1> USE DEF Init
<1>1. DataInv
  <2>1. current \in Lists /\ inFlight \in Seq(Lists) /\ jobs \in Seq(JobRecords) /\ Len(inFlight) = 0
    BY DEF Unused, Lists
  <2>2. TypeOK
    BY DEF TypeOK, NoInstance, Handles, Unused
  <2> QED
    BY <2>1, <2>2 DEF DataInv
<1>2. UseInv
  <2> SUFFICES ASSUME NEW g \in Pipelines
               PROVE useCount[g] = Uses(current, inFlight, jobs, g)
    BY DEF UseInv
  <2>1. useCount[g] = 0 /\ g \notin current.pipelines /\ inFlight = <<>> /\ jobs = <<>>
    BY DEF Unused
  <2>2. Cardinality(InLists(inFlight, g)) = 0 /\ Cardinality(InJobs(jobs, g)) = 0
    BY <2>1, NoUsers, Zenon
  <2> QED
    BY <2>1, <2>2 DEF Uses
<1>3. LibraryInv
  <2>1. LinkedPipelines = {}
    BY DEF LinkedPipelines
  <2> QED
    BY <2>1, FS_EmptySet DEF LibraryInv
<1>4. InstanceInv
  BY DEF InstanceInv, NoInstance
<1>5. RecordedInv
  BY DEF RecordedInv, Unused
<1> QED
  BY <1>1, <1>2, <1>3, <1>4, <1>5 DEF IInv

-----------------------------------------------------------------------------
(* What the helpers do                                                     *)

LEMMA Types ==
  ASSUME DataInv
  PROVE  /\ instance \in [Pipelines -> [States -> Handles]]
         /\ basePipeline \in [Pipelines -> {"none", "linked", "failed"}]
         /\ useCount \in [Pipelines -> Nat]
         /\ library \in [handle : BOOLEAN, useCount : Nat, compiledOnce : BOOLEAN]
         /\ context \in {"idle", "job", "fast", "base"}
         /\ current \in Lists /\ inFlight \in Seq(Lists) /\ jobs \in Seq(JobRecords)
BY DEF DataInv, TypeOK

LEMMA LoseBase ==
  ASSUME NEW x \in Handles
  PROVE  [x EXCEPT !.base = FALSE] \in Handles
BY DEF Handles

LEMMA LibraryLoses ==
  ASSUME NEW l \in [handle : BOOLEAN, useCount : Nat, compiledOnce : BOOLEAN], l.useCount >= 1,
         NEW b \in BOOLEAN, NEW m, m = [l EXCEPT !.useCount = @ - 1, !.handle = b]
  PROVE  /\ m \in [handle : BOOLEAN, useCount : Nat, compiledOnce : BOOLEAN]
         /\ m.useCount = l.useCount - 1 /\ m.handle = b /\ m.compiledOnce = l.compiledOnce
<1>1. m = [handle |-> b, useCount |-> l.useCount - 1, compiledOnce |-> l.compiledOnce]
  OBVIOUS
<1>2. l.useCount - 1 \in Nat /\ l.compiledOnce \in BOOLEAN
  OBVIOUS
<1> QED
  BY <1>1, <1>2

LEMMA NewFields ==
  ASSUME NEW g, NEW b \in BOOLEAN
  PROVE  /\ NewInstance(g, b) \in Handles
         /\ NewInstance(g, b).exists /\ (NewInstance(g, b).base <=> b)
         /\ (NewInstance(g, b).fast <=> ~b) /\ (NewInstance(g, b).isCompiling <=> ~b)
<1>1. CASE b
  BY <1>1 DEF NewInstance, Handles
<1>2. CASE ~b
  BY <1>2 DEF NewInstance, Handles
<1> QED
  BY <1>1, <1>2

\* The last user destroys what is linked.
LEMMA ReleaseStep ==
  ASSUME DataInv, LibraryInv, NEW g \in Pipelines, useCount[g] > 0, ReleasePipeline(g)
  PROVE  /\ useCount' \in [Pipelines -> Nat]
         /\ \A h \in Pipelines : useCount'[h] = useCount[h] - (IF h = g THEN 1 ELSE 0)
         /\ instance' \in [Pipelines -> [States -> Handles]]
         /\ basePipeline' \in [Pipelines -> {"none", "linked", "failed"}]
         /\ library' \in [handle : BOOLEAN, useCount : Nat, compiledOnce : BOOLEAN]
         /\ LibraryInv'
         /\ \/ UNCHANGED <<instance, basePipeline>>
            \/ /\ useCount'[g] = 0
               /\ \A h \in Pipelines \ {g} : basePipeline'[h] = basePipeline[h] /\ instance'[h] = instance[h]
               /\ \A s \in States : instance'[g][s] = [instance[g][s] EXCEPT !.base = FALSE]
<1>0. /\ instance \in [Pipelines -> [States -> Handles]]
      /\ basePipeline \in [Pipelines -> {"none", "linked", "failed"}]
      /\ useCount \in [Pipelines -> Nat]
      /\ library \in [handle : BOOLEAN, useCount : Nat, compiledOnce : BOOLEAN]
  BY Types
<1>1. useCount' = [useCount EXCEPT ![g] = @ - 1]
  BY DEF ReleasePipeline
<1>2. /\ useCount' \in [Pipelines -> Nat]
      /\ \A h \in Pipelines : useCount'[h] = useCount[h] - (IF h = g THEN 1 ELSE 0)
  BY <1>0, <1>1
<1>3. CASE useCount[g] > 1 \/ basePipeline[g] = "none"
  <2>1. UNCHANGED <<instance, basePipeline, library>>
    BY <1>3 DEF ReleasePipeline
  <2>2. LibraryInv'
    BY <2>1 DEF LibraryInv, LinkedPipelines
  <2> QED
    BY <1>0, <1>2, <2>1, <2>2
<1>4. CASE ~(useCount[g] > 1 \/ basePipeline[g] = "none")
  <2>1. DestroyBase(g)
    BY <1>4 DEF ReleasePipeline
  <2>2. useCount'[g] = 0
    BY <1>0, <1>2, <1>4
  <2>3. basePipeline' = [basePipeline EXCEPT ![g] = "none"]
    BY <2>1 DEF DestroyBase
  <2>4. instance' = [instance EXCEPT ![g] = [s \in States |-> [@[s] EXCEPT !.base = FALSE]]]
    BY <2>1 DEF DestroyBase
  <2>5. /\ basePipeline' \in [Pipelines -> {"none", "linked", "failed"}]
        /\ \A h \in Pipelines \ {g} : basePipeline'[h] = basePipeline[h]
    BY <1>0, <2>3
  <2>6. \A s \in States : [instance[g][s] EXCEPT !.base = FALSE] \in Handles
    BY <1>0, LoseBase
  <2>7. /\ instance' \in [Pipelines -> [States -> Handles]]
        /\ \A h \in Pipelines \ {g} : instance'[h] = instance[h]
        /\ \A s \in States : instance'[g][s] = [instance[g][s] EXCEPT !.base = FALSE]
    BY <1>0, <2>4, <2>6
  <2>8. LinkedPipelines' = LinkedPipelines \ {g} /\ g \in LinkedPipelines
    BY <1>0, <1>4, <2>3 DEF LinkedPipelines
  <2>9. /\ IsFiniteSet(LinkedPipelines') /\ library.useCount >= 1
        /\ Cardinality(LinkedPipelines') = library.useCount - 1
    <3>1. /\ IsFiniteSet(LinkedPipelines \ {g})
          /\ Cardinality(LinkedPipelines \ {g}) = Cardinality(LinkedPipelines) - 1
      BY <2>8, FS_RemoveElement DEF LibraryInv
    <3>2. Cardinality(LinkedPipelines \ {g}) \in Nat /\ Cardinality(LinkedPipelines) \in Nat
      BY <3>1, FS_CardinalityType DEF LibraryInv
    <3> QED
      BY <2>8, <3>1, <3>2 DEF LibraryInv
  <2>10. /\ library'.useCount = library.useCount - 1
         /\ library'.handle <=> library.handle /\ library.useCount > 1
         /\ library'.compiledOnce = library.compiledOnce
         /\ library' \in [handle : BOOLEAN, useCount : Nat, compiledOnce : BOOLEAN]
    <3>1. PICK b \in BOOLEAN : b = (library.handle /\ library.useCount > 1)
      OBVIOUS
    <3>2. library' = [library EXCEPT !.useCount = @ - 1, !.handle = b]
      BY <2>1, <3>1 DEF DestroyBase, ReleaseLibrary
    <3>3. /\ library' \in [handle : BOOLEAN, useCount : Nat, compiledOnce : BOOLEAN]
          /\ library'.useCount = library.useCount - 1 /\ library'.handle = b
          /\ library'.compiledOnce = library.compiledOnce
      BY <1>0, <2>9, <3>2, LibraryLoses
    <3> QED
      BY <3>1, <3>3
  <2>11. LibraryInv'
    <3>1. library'.useCount = Cardinality(LinkedPipelines')
      BY <2>9, <2>10
    <3>2. library'.handle <=> library'.useCount > 0
      BY <1>0, <2>9, <2>10 DEF LibraryInv
    <3>3. library'.useCount > 0 => library'.compiledOnce
      BY <1>0, <2>9, <2>10 DEF LibraryInv
    <3> QED
      BY <2>9, <3>1, <3>2, <3>3 DEF LibraryInv
  <2> QED
    BY <1>2, <2>2, <2>5, <2>7, <2>10, <2>11
<1> QED
  BY <1>3, <1>4

\* An instance is created, linked if this is possible.
LEMMA CreateStep ==
  ASSUME DataInv, LibraryInv, NEW g \in Pipelines, NEW s \in States, NEW link \in BOOLEAN,
         CreateInstance(g, s, link)
  PROVE  /\ instance' \in [Pipelines -> [States -> Handles]]
         /\ basePipeline' \in [Pipelines -> {"none", "linked", "failed"}]
         /\ library' \in [handle : BOOLEAN, useCount : Nat, compiledOnce : BOOLEAN]
         /\ LibraryInv'
         /\ \A h \in Pipelines : basePipeline[h] = "linked" => basePipeline'[h] = "linked"
         /\ \A h \in Pipelines, t \in States : <<h, t>> # <<g, s>> => instance'[h][t] = instance[h][t]
         /\ instance'[g][s].exists /\ (instance'[g][s].fast <=> ~instance'[g][s].base)
         /\ instance'[g][s].isCompiling <=> instance'[g][s].fast
         /\ instance'[g][s].base => basePipeline'[g] = "linked"
         /\ ~link => instance'[g][s].fast
<1>0. /\ instance \in [Pipelines -> [States -> Handles]]
      /\ basePipeline \in [Pipelines -> {"none", "linked", "failed"}]
      /\ library \in [handle : BOOLEAN, useCount : Nat, compiledOnce : BOOLEAN]
  BY Types
<1>1. PICK b \in BOOLEAN : b = (link /\ basePipeline'[g] = "linked")
  OBVIOUS
<1>2. instance' = [instance EXCEPT ![g][s] = NewInstance(g, b)]
  BY <1>1 DEF CreateInstance
<1>3. NewInstance(g, b) \in Handles
  BY NewFields
<1>4. instance' \in [Pipelines -> [States -> Handles]]
  BY <1>0, <1>2, <1>3
<1>5. /\ \A h \in Pipelines, t \in States : <<h, t>> # <<g, s>> => instance'[h][t] = instance[h][t]
      /\ instance'[g][s] = NewInstance(g, b)
  BY <1>0, <1>2
<1>6. /\ instance'[g][s].exists /\ (instance'[g][s].fast <=> ~instance'[g][s].base)
      /\ instance'[g][s].isCompiling <=> instance'[g][s].fast
      /\ instance'[g][s].base => basePipeline'[g] = "linked"
      /\ ~link => instance'[g][s].fast
  BY <1>1, <1>5, NewFields
<1>7. CASE UNCHANGED <<basePipeline, library>>
  <2>1. LibraryInv'
    BY <1>7 DEF LibraryInv, LinkedPipelines
  <2> QED
    BY <1>0, <1>4, <1>5, <1>6, <1>7, <2>1
<1>8. CASE ~UNCHANGED <<basePipeline, library>>
  <2>1. basePipeline[g] = "none" /\ AcquireLibrary
    BY <1>8 DEF CreateInstance, LinkBase
  <2>2. PICK r \in {"linked", "failed"} : basePipeline' = [basePipeline EXCEPT ![g] = r]
    BY <1>8 DEF CreateInstance, LinkBase
  <2>3. LinkedPipelines' = LinkedPipelines \cup {g} /\ g \notin LinkedPipelines
    BY <1>0, <2>1, <2>2 DEF LinkedPipelines
  <2>4. /\ IsFiniteSet(LinkedPipelines')
        /\ Cardinality(LinkedPipelines') = library.useCount + 1
    BY <2>3, FS_AddElement DEF LibraryInv
  <2>5. /\ library' = [handle |-> TRUE, useCount |-> library.useCount + 1, compiledOnce |-> TRUE]
        /\ library.useCount \in Nat
    BY <1>0, <2>1 DEF AcquireLibrary
  <2>6. LibraryInv'
    BY <2>4, <2>5 DEF LibraryInv
  <2>7. /\ basePipeline' \in [Pipelines -> {"none", "linked", "failed"}]
        /\ \A h \in Pipelines : basePipeline[h] = "linked" => basePipeline'[h] = "linked"
    BY <1>0, <2>1, <2>2
  <2>8. library' \in [handle : BOOLEAN, useCount : Nat, compiledOnce : BOOLEAN]
    BY <2>5
  <2> QED
    BY <1>4, <1>5, <1>6, <2>6, <2>7, <2>8
<1> QED
  BY <1>7, <1>8

-----------------------------------------------------------------------------
(* What a step leaves true                                                 *)

\* When nobody uses a pipeline, no command list has recorded it and nobody is going to compile
\* an instance of it.
LEMMA NobodyUses ==
  ASSUME NEW l \in Lists, NEW q \in Seq(Lists), NEW r \in Seq(JobRecords), NEW g,
         Uses(l, q, r, g) = 0,
         l.base \subseteq l.pipelines,
         \A i \in 1 .. Len(q) : q[i].base \subseteq q[i].pipelines
  PROVE  /\ g \notin l.pipelines /\ g \notin l.base
         /\ \A i \in 1 .. Len(q) : g \notin q[i].base
         /\ \A s : ~HasJob(r, g, s, "compile") /\ ~HasJob(r, g, s, "queued")
<1>1. /\ g \notin l.pipelines
      /\ \A i \in 1 .. Len(q) : g \notin q[i].pipelines
      /\ \A i \in 1 .. Len(r) : r[i].pipeline = g => r[i].at = "done"
  BY UsesFacts
<1>2. \A s : ~HasJob(r, g, s, "compile") /\ ~HasJob(r, g, s, "queued")
  BY <1>1 DEF HasJob
<1> QED
  BY <1>1, <1>2

\* A pipeline that somebody uses has a positive use count.
LEMMA InUse ==
  ASSUME DataInv, UseInv, NEW g \in Pipelines,
         \/ g \in current.pipelines
         \/ \E i \in 1 .. Len(inFlight) : g \in inFlight[i].pipelines
         \/ \E i \in 1 .. Len(jobs) : jobs[i].pipeline = g /\ jobs[i].at # "done"
  PROVE  useCount[g] > 0
<1>1. current \in Lists /\ inFlight \in Seq(Lists) /\ jobs \in Seq(JobRecords)
  BY Types
<1>2. Uses(current, inFlight, jobs, g) \in Nat /\ Uses(current, inFlight, jobs, g) # 0
  BY <1>1, UsesFacts
<1>3. useCount[g] = Uses(current, inFlight, jobs, g)
  BY DEF UseInv
<1> QED
  BY <1>2, <1>3

\* Instances stay as they are, and whoever is going to compile one still is.
LEMMA InstancesKept ==
  ASSUME InstanceInv, UNCHANGED <<instance, basePipeline>>,
         \A g \in Pipelines, s \in States : HasJob(jobs, g, s, "compile") => HasJob(jobs', g, s, "compile"),
         \A g \in Pipelines, s \in States :
           (context = "job" /\ bound = <<g, s>>) \/ HasJob(jobs, g, s, "queued")
             => (context' = "job" /\ bound' = <<g, s>>) \/ HasJob(jobs', g, s, "queued")
  PROVE  InstanceInv'
<1> SUFFICES ASSUME NEW g \in Pipelines, NEW s \in States
             PROVE /\ instance'[g][s].base => basePipeline'[g] = "linked"
                   /\ instance'[g][s].exists => instance'[g][s].base \/ instance'[g][s].fast
                   /\ instance'[g][s].exists /\ ~instance'[g][s].fast =>
                        IF instance'[g][s].isCompiling THEN HasJob(jobs', g, s, "compile")
                        ELSE (context' = "job" /\ bound' = <<g, s>>) \/ HasJob(jobs', g, s, "queued")
  BY DEF InstanceInv, WillCompile
<1>1. instance'[g][s] = instance[g][s] /\ basePipeline'[g] = basePipeline[g]
  OBVIOUS
<1>2. /\ instance[g][s].base => basePipeline[g] = "linked"
      /\ instance[g][s].exists => instance[g][s].base \/ instance[g][s].fast
      /\ instance[g][s].exists /\ ~instance[g][s].fast =>
           IF instance[g][s].isCompiling THEN HasJob(jobs, g, s, "compile")
           ELSE (context = "job" /\ bound = <<g, s>>) \/ HasJob(jobs, g, s, "queued")
  BY DEF InstanceInv, WillCompile
<1> QED
  BY <1>1, <1>2

\* When the last user destroys what is linked, nobody has recorded it, and no instance is left
\* without a handle.
LEMMA AfterRelease ==
  ASSUME DataInv, DataInv', UseInv', InstanceInv, NEW g \in Pipelines, UNCHANGED <<context, bound>>,
         \/ UNCHANGED <<instance, basePipeline>>
         \/ /\ useCount'[g] = 0
            /\ \A h \in Pipelines \ {g} : basePipeline'[h] = basePipeline[h] /\ instance'[h] = instance[h]
            /\ \A s \in States : instance'[g][s] = [instance[g][s] EXCEPT !.base = FALSE],
         \A h \in Pipelines, s \in States, at \in {"compile", "queued"} :
           HasJob(jobs, h, s, at) => HasJob(jobs', h, s, at),
         \A h \in current'.base : basePipeline[h] = "linked",
         \A i \in 1 .. Len(inFlight') : \A h \in inFlight'[i].base : basePipeline[h] = "linked"
  PROVE  InstanceInv' /\ RecordedInv'
<1>1. CASE UNCHANGED <<instance, basePipeline>>
  <2>1. InstanceInv'
    BY <1>1, InstancesKept
  <2>2. RecordedInv'
    BY <1>1 DEF RecordedInv
  <2> QED
    BY <2>1, <2>2
<1>2. CASE /\ useCount'[g] = 0
           /\ \A h \in Pipelines \ {g} : basePipeline'[h] = basePipeline[h] /\ instance'[h] = instance[h]
           /\ \A s \in States : instance'[g][s] = [instance[g][s] EXCEPT !.base = FALSE]
  <2>1. /\ current' \in Lists /\ inFlight' \in Seq(Lists) /\ jobs' \in Seq(JobRecords)
        /\ current'.base \subseteq current'.pipelines
        /\ \A i \in 1 .. Len(inFlight') : inFlight'[i].base \subseteq inFlight'[i].pipelines
        /\ context' # "idle" => bound'[1] \in current'.pipelines
    BY DEF DataInv, TypeOK
  <2>2. Uses(current', inFlight', jobs', g) = 0
    BY <1>2 DEF UseInv
  <2>3. /\ g \notin current'.pipelines /\ g \notin current'.base
        /\ \A i \in 1 .. Len(inFlight') : g \notin inFlight'[i].base
        /\ \A s : ~HasJob(jobs', g, s, "compile") /\ ~HasJob(jobs', g, s, "queued")
    BY <2>1, <2>2, NobodyUses
  <2>4. RecordedInv'
    <3>1. \A i \in 1 .. Len(inFlight') : inFlight'[i] \in Lists
      BY <2>1
    <3>2. current'.base \subseteq Pipelines /\ \A i \in 1 .. Len(inFlight') : inFlight'[i].base \subseteq Pipelines
      BY <2>1, <3>1 DEF Lists
    <3> QED
      BY <1>2, <2>3, <3>2 DEF RecordedInv
  <2>5. ASSUME NEW h \in Pipelines, NEW s \in States
        PROVE  /\ instance'[h][s].base => basePipeline'[h] = "linked"
               /\ instance'[h][s].exists => instance'[h][s].base \/ instance'[h][s].fast
               /\ instance'[h][s].exists /\ ~instance'[h][s].fast =>
                    IF instance'[h][s].isCompiling THEN HasJob(jobs', h, s, "compile")
                    ELSE (context' = "job" /\ bound' = <<h, s>>) \/ HasJob(jobs', h, s, "queued")
    <3>1. /\ instance[h][s].base => basePipeline[h] = "linked"
          /\ instance[h][s].exists => instance[h][s].base \/ instance[h][s].fast
          /\ instance[h][s].exists /\ ~instance[h][s].fast =>
               IF instance[h][s].isCompiling THEN HasJob(jobs, h, s, "compile")
               ELSE (context = "job" /\ bound = <<h, s>>) \/ HasJob(jobs, h, s, "queued")
      BY DEF InstanceInv, WillCompile
    <3>2. CASE h # g
      <4>1. instance'[h][s] = instance[h][s] /\ basePipeline'[h] = basePipeline[h]
        BY <1>2, <3>2
      <4>2. /\ HasJob(jobs, h, s, "compile") => HasJob(jobs', h, s, "compile")
            /\ HasJob(jobs, h, s, "queued") => HasJob(jobs', h, s, "queued")
        OBVIOUS
      <4> QED
        BY <3>1, <4>1, <4>2
    <3>3. CASE h = g
      <4>1. /\ HasJob(jobs, g, s, "compile") => HasJob(jobs', g, s, "compile")
            /\ HasJob(jobs, g, s, "queued") => HasJob(jobs', g, s, "queued")
        OBVIOUS
      <4>2. ~HasJob(jobs, g, s, "compile") /\ ~HasJob(jobs, g, s, "queued")
        BY <2>3, <4>1
      <4>3. ~(context = "job" /\ bound = <<g, s>>)
        BY <2>1, <2>3
      <4>4. instance[g][s].exists => instance[g][s].fast
        BY <3>1, <3>3, <4>2, <4>3
      <4>5. /\ instance[g][s] \in Handles
            /\ instance'[g][s] = [instance[g][s] EXCEPT !.base = FALSE]
        BY <1>2, Types
      <4>6. /\ ~instance'[g][s].base
            /\ instance'[g][s].exists <=> instance[g][s].exists
            /\ instance'[g][s].fast <=> instance[g][s].fast
        BY <4>5 DEF Handles
      <4> QED
        BY <3>3, <4>4, <4>6
    <3> QED
      BY <3>2, <3>3
  <2>6. InstanceInv'
    BY <2>5 DEF InstanceInv, WillCompile
  <2> QED
    BY <2>4, <2>6
<1> QED
  BY <1>1, <1>2

-----------------------------------------------------------------------------
(* The CS thread                                                           *)

LEMMA TrackKeeps ==
  ASSUME IInv, NEW g \in Pipelines, TrackGraphicsPipeline(g)
  PROVE  IInv'
<1>0. /\ DataInv /\ UseInv /\ LibraryInv /\ InstanceInv /\ RecordedInv
      /\ UNCHANGED <<instance, basePipeline, library, context, bound, inFlight, jobs>>
  BY DEF IInv, TrackGraphicsPipeline
<1>1. /\ useCount' = [useCount EXCEPT ![g] = @ + 1]
      /\ g \notin current.pipelines
      /\ current' = [current EXCEPT !.pipelines = @ \cup {g}]
  BY DEF TrackGraphicsPipeline, AcquirePipeline
<1>2. current' \in Lists /\ current'.pipelines = current.pipelines \cup {g} /\ current'.base = current.base
  BY <1>0, <1>1, Types DEF Lists
<1>3. DataInv'
  BY <1>0, <1>1, <1>2 DEF DataInv, TypeOK
<1>4. UseInv'
  <2> SUFFICES ASSUME NEW h \in Pipelines PROVE useCount'[h] = Uses(current', inFlight', jobs', h)
    BY DEF UseInv
  <2>1. useCount'[h] = useCount[h] + (IF h = g THEN 1 ELSE 0)
    BY <1>0, <1>1, Types
  <2>2. Uses(current', inFlight, jobs, h) = Uses(current, inFlight, jobs, h) + (IF h = g THEN 1 ELSE 0)
    <3>1. current \in Lists /\ inFlight \in Seq(Lists) /\ jobs \in Seq(JobRecords)
      BY <1>0, Types
    <3>2. PICK l1 : l1 = current'
      OBVIOUS
    <3>3. g \notin current.pipelines /\ l1.pipelines = current.pipelines \cup {g}
      BY <1>1, <1>2, <3>2
    <3>4. Uses(l1, inFlight, jobs, h) = Uses(current, inFlight, jobs, h) + (IF h = g THEN 1 ELSE 0)
      BY <3>1, <3>3, UsesTrack
    <3> QED
      BY <3>2, <3>4
  <2> QED
    BY <1>0, <2>1, <2>2 DEF UseInv
<1>5. LibraryInv'
  BY <1>0 DEF LibraryInv, LinkedPipelines
<1>6. InstanceInv'
  BY <1>0, InstancesKept
<1>7. RecordedInv'
  BY <1>0, <1>2 DEF RecordedInv
<1> QED
  BY <1>3, <1>4, <1>5, <1>6, <1>7 DEF IInv

LEMMA GetHandleKeeps ==
  ASSUME IInv, NEW g \in Pipelines, NEW s \in States, GetPipelineHandle(g, s)
  PROVE  IInv'
<1>0. /\ DataInv /\ UseInv /\ LibraryInv /\ InstanceInv /\ RecordedInv
      /\ UNCHANGED <<useCount, current, inFlight, jobs>>
      /\ context = "idle" /\ g \in current.pipelines /\ bound' = <<g, s>>
  BY DEF IInv, GetPipelineHandle
<1>1. CASE instance[g][s].exists
  <2>1. UNCHANGED <<instance, basePipeline, library>> /\ context' = "fast"
    BY <1>1 DEF GetPipelineHandle
  <2>2. DataInv'
    BY <1>0, <2>1 DEF DataInv, TypeOK
  <2>3. UseInv' /\ LibraryInv' /\ RecordedInv'
    BY <1>0, <2>1 DEF UseInv, LibraryInv, LinkedPipelines, RecordedInv
  <2>4. InstanceInv'
    BY <1>0, <2>1, InstancesKept
  <2> QED
    BY <2>2, <2>3, <2>4 DEF IInv
<1>2. CASE ~instance[g][s].exists
  <2>1. PICK link \in BOOLEAN : link <=> <<g, s>> \in Linkable
    OBVIOUS
  <2>2. /\ CreateInstance(g, s, link)
        /\ context' = IF instance'[g][s].fast THEN "fast" ELSE "job"
    <3>1. CASE link
      BY <1>2, <2>1, <3>1 DEF GetPipelineHandle, CreateInstance, NewInstance
    <3>2. CASE ~link
      BY <1>2, <2>1, <3>2 DEF GetPipelineHandle, CreateInstance, NewInstance
    <3> QED
      BY <3>1, <3>2
  <2>3. /\ instance' \in [Pipelines -> [States -> Handles]]
        /\ basePipeline' \in [Pipelines -> {"none", "linked", "failed"}]
        /\ library' \in [handle : BOOLEAN, useCount : Nat, compiledOnce : BOOLEAN]
        /\ LibraryInv'
        /\ \A h \in Pipelines : basePipeline[h] = "linked" => basePipeline'[h] = "linked"
        /\ \A h \in Pipelines, t \in States : <<h, t>> # <<g, s>> => instance'[h][t] = instance[h][t]
        /\ instance'[g][s].exists /\ (instance'[g][s].fast <=> ~instance'[g][s].base)
        /\ instance'[g][s].isCompiling <=> instance'[g][s].fast
        /\ instance'[g][s].base => basePipeline'[g] = "linked"
    BY <1>0, <2>2, CreateStep
  <2>4. DataInv'
    <3>1. TypeOK'
      <4>1. context' \in {"idle", "job", "fast", "base"}
        BY <2>2
      <4> QED
        BY <1>0, <2>3, <4>1 DEF DataInv, TypeOK
    <3> QED
      BY <1>0, <3>1 DEF DataInv
  <2>5. UseInv'
    BY <1>0 DEF UseInv
  <2>6. RecordedInv'
    <3>1. current \in Lists /\ inFlight \in Seq(Lists)
      BY <1>0, Types
    <3>2. \A i \in 1 .. Len(inFlight) : inFlight[i] \in Lists
      BY <3>1
    <3>3. current.base \subseteq Pipelines /\ \A i \in 1 .. Len(inFlight) : inFlight[i].base \subseteq Pipelines
      BY <3>1, <3>2 DEF Lists
    <3> QED
      BY <1>0, <2>3, <3>3 DEF RecordedInv
  <2>7. ASSUME NEW h \in Pipelines, NEW t \in States
        PROVE  /\ instance'[h][t].base => basePipeline'[h] = "linked"
               /\ instance'[h][t].exists => instance'[h][t].base \/ instance'[h][t].fast
               /\ instance'[h][t].exists /\ ~instance'[h][t].fast =>
                    IF instance'[h][t].isCompiling THEN HasJob(jobs', h, t, "compile")
                    ELSE (context' = "job" /\ bound' = <<h, t>>) \/ HasJob(jobs', h, t, "queued")
    <3>1. CASE <<h, t>> # <<g, s>>
      <4>1. instance'[h][t] = instance[h][t]
        BY <2>3, <3>1
      <4>2. /\ instance[h][t].base => basePipeline[h] = "linked"
            /\ instance[h][t].exists => instance[h][t].base \/ instance[h][t].fast
            /\ instance[h][t].exists /\ ~instance[h][t].fast =>
                 IF instance[h][t].isCompiling THEN HasJob(jobs, h, t, "compile")
                 ELSE (context = "job" /\ bound = <<h, t>>) \/ HasJob(jobs, h, t, "queued")
        BY <1>0 DEF InstanceInv, WillCompile
      <4> QED
        BY <1>0, <2>3, <4>1, <4>2
    <3>2. CASE <<h, t>> = <<g, s>>
      BY <1>0, <2>2, <2>3, <3>2
    <3> QED
      BY <3>1, <3>2
  <2>8. InstanceInv'
    BY <2>7 DEF InstanceInv, WillCompile
  <2> QED
    BY <2>3, <2>4, <2>5, <2>6, <2>8 DEF IInv
<1> QED
  BY <1>1, <1>2

\* A job is queued, by the CS thread or by the state cache.
LEMMA QueueKeeps ==
  ASSUME IInv, NEW g \in Pipelines, NEW s \in States, Queue(g, s), UNCHANGED <<current, inFlight>>,
         UNCHANGED <<context, bound>> \/ (bound = <<g, s>> /\ bound' = bound /\ context' = "fast"
                                            /\ context = "job")
  PROVE  IInv'
<1>0. /\ DataInv /\ UseInv /\ LibraryInv /\ InstanceInv /\ RecordedInv
      /\ UNCHANGED <<instance, basePipeline, library>>
      /\ useCount' = [useCount EXCEPT ![g] = @ + 1]
  BY DEF IInv, Queue, AcquirePipeline
<1>1. PICK j : j = [pipeline |-> g, state |-> s, at |-> "queued"]
  OBVIOUS
<1>2. jobs' = Append(jobs, j) /\ j \in JobRecords /\ j.at # "done"
  BY <1>1 DEF Queue, JobRecords
<1>3. jobs' \in Seq(JobRecords)
  BY <1>0, <1>2, Types
<1>4. DataInv'
  <2>1. useCount' \in [Pipelines -> Nat] /\ context' \in {"idle", "job", "fast", "base"}
    BY <1>0, Types
  <2> QED
    BY <1>0, <1>3, <2>1 DEF DataInv, TypeOK
<1>5. UseInv'
  <2> SUFFICES ASSUME NEW h \in Pipelines PROVE useCount'[h] = Uses(current', inFlight', jobs', h)
    BY DEF UseInv
  <2>1. useCount'[h] = useCount[h] + (IF h = g THEN 1 ELSE 0)
    BY <1>0, Types
  <2>2. Uses(current, inFlight, Append(jobs, j), h)
          = Uses(current, inFlight, jobs, h) + (IF h = j.pipeline THEN 1 ELSE 0)
    BY <1>0, <1>2, Types, UsesQueue
  <2>3. j.pipeline = g
    BY <1>1
  <2> QED
    BY <1>0, <1>2, <2>1, <2>2, <2>3 DEF UseInv
<1>6. LibraryInv' /\ RecordedInv'
  BY <1>0 DEF LibraryInv, LinkedPipelines, RecordedInv
<1>7. /\ \A h, t, at : HasJob(jobs, h, t, at) => HasJob(jobs', h, t, at)
      /\ HasJob(jobs', g, s, "queued")
  <2>1. /\ Len(jobs) \in Nat /\ Len(jobs') = Len(jobs) + 1 /\ jobs'[Len(jobs) + 1] = j
        /\ \A i \in 1 .. Len(jobs) : jobs'[i] = jobs[i]
    BY <1>0, <1>2, Types
  <2>2. \A h, t, at : HasJob(jobs, h, t, at) => HasJob(jobs', h, t, at)
    BY <2>1 DEF HasJob
  <2>3. j.pipeline = g /\ j.state = s /\ j.at = "queued"
    BY <1>1
  <2>4. Len(jobs) + 1 \in 1 .. Len(jobs')
    BY <2>1
  <2>5. HasJob(jobs', g, s, "queued")
    BY <2>1, <2>3, <2>4 DEF HasJob
  <2> QED
    BY <2>2, <2>5
<1>8. InstanceInv'
  BY <1>0, <1>7, InstancesKept
<1> QED
  BY <1>4, <1>5, <1>6, <1>8 DEF IInv

LEMMA LoadKeeps ==
  ASSUME IInv, LoadFast \/ LoadBase
  PROVE  IInv'
<1>0. /\ DataInv /\ UseInv /\ LibraryInv /\ InstanceInv /\ RecordedInv
      /\ UNCHANGED <<instance, basePipeline, useCount, library, inFlight, jobs>>
  BY DEF IInv, LoadFast, LoadBase, pipelineVars
<1>1. /\ context # "idle" /\ context # "job" /\ context' \in {"idle", "base"}
      /\ context' # "idle" => bound' = bound
  BY DEF LoadFast, LoadBase
<1>2. /\ current' \in Lists /\ current'.pipelines = current.pipelines
      /\ current'.base \subseteq current'.pipelines
      /\ \A g \in current'.base : basePipeline[g] = "linked"
  <2>0. /\ current \in Lists /\ current.base \subseteq current.pipelines
        /\ \A g \in current.base : basePipeline[g] = "linked"
    BY <1>0 DEF DataInv, TypeOK, RecordedInv
  <2>1. CASE current' = current
    BY <2>0, <2>1
  <2>2. CASE current' # current
    <3>1. /\ current' = [current EXCEPT !.base = @ \cup {bound[1]}]
          /\ instance[bound[1]][bound[2]].base
      BY <2>2 DEF LoadFast, LoadBase
    <3>2. bound \in Pipelines \X States /\ bound[1] \in current.pipelines
      BY <1>0, <1>1 DEF DataInv
    <3>3. basePipeline[bound[1]] = "linked" /\ bound[1] \in Pipelines
      BY <1>0, <3>1, <3>2 DEF InstanceInv
    <3>4. /\ current' \in Lists /\ current'.pipelines = current.pipelines
          /\ current'.base = current.base \cup {bound[1]}
      BY <2>0, <3>1, <3>3 DEF Lists
    <3> QED
      BY <2>0, <3>2, <3>3, <3>4
  <2> QED
    BY <2>1, <2>2
<1>3. DataInv'
  <2>1. TypeOK'
    BY <1>0, <1>1, <1>2 DEF DataInv, TypeOK
  <2> QED
    BY <1>0, <1>1, <1>2, <2>1 DEF DataInv
<1>4. UseInv'
  BY <1>0, <1>2 DEF UseInv, Uses
<1>5. LibraryInv'
  BY <1>0 DEF LibraryInv, LinkedPipelines
<1>6. InstanceInv'
  BY <1>0, <1>1, InstancesKept
<1>7. RecordedInv'
  BY <1>0, <1>2 DEF RecordedInv
<1> QED
  BY <1>3, <1>4, <1>5, <1>6, <1>7 DEF IInv

LEMMA FlushKeeps ==
  ASSUME IInv, FlushCommandList
  PROVE  IInv'
<1>0. /\ DataInv /\ UseInv /\ LibraryInv /\ InstanceInv /\ RecordedInv
      /\ UNCHANGED <<instance, basePipeline, useCount, library, context, bound, jobs>>
      /\ context = "idle" /\ inFlight' = Append(inFlight, current) /\ current' = Unused
  BY DEF IInv, FlushCommandList, pipelineVars
<1>1. /\ current \in Lists /\ inFlight \in Seq(Lists) /\ jobs \in Seq(JobRecords)
      /\ current.base \subseteq current.pipelines
      /\ \A i \in 1 .. Len(inFlight) : inFlight[i].base \subseteq inFlight[i].pipelines
  BY <1>0 DEF DataInv, TypeOK
<1>2. PICK n \in Nat : n = Len(inFlight)
  BY <1>1
<1>3. /\ inFlight' \in Seq(Lists) /\ Len(inFlight') = n + 1
      /\ \A i \in 1 .. n : inFlight'[i] = inFlight[i]
      /\ inFlight'[n + 1] = current
  BY <1>0, <1>1, <1>2
<1>4. \A i \in 1 .. n + 1 : i \in 1 .. n \/ i = n + 1
  OBVIOUS
<1>5. DataInv'
  <2>1. \A i \in 1 .. Len(inFlight') : inFlight'[i].base \subseteq inFlight'[i].pipelines
    BY <1>1, <1>2, <1>3, <1>4
  <2>2. current' \in Lists /\ current'.base \subseteq current'.pipelines
    BY <1>0 DEF Unused, Lists
  <2> QED
    BY <1>0, <1>3, <2>1, <2>2 DEF DataInv, TypeOK
<1>6. UseInv'
  <2> SUFFICES ASSUME NEW h \in Pipelines PROVE useCount'[h] = Uses(current', inFlight', jobs', h)
    BY DEF UseInv
  <2>1. Uses(Unused, Append(inFlight, current), jobs, h) = Uses(current, inFlight, jobs, h)
    BY <1>1, UsesFlush
  <2> QED
    BY <1>0, <2>1 DEF UseInv
<1>7. LibraryInv'
  BY <1>0 DEF LibraryInv, LinkedPipelines
<1>8. InstanceInv'
  BY <1>0, InstancesKept
<1>9. RecordedInv'
  <2>1. \A i \in 1 .. Len(inFlight') : \A g \in inFlight'[i].base : basePipeline[g] = "linked"
    BY <1>0, <1>2, <1>3, <1>4 DEF RecordedInv
  <2> QED
    BY <1>0, <2>1 DEF RecordedInv, Unused
<1> QED
  BY <1>5, <1>6, <1>7, <1>8, <1>9 DEF IInv

-----------------------------------------------------------------------------
(* Other threads                                                           *)

LEMMA ResetKeeps ==
  ASSUME IInv, ResetCommandList
  PROVE  IInv'
<1>0. /\ DataInv /\ UseInv /\ LibraryInv /\ InstanceInv /\ RecordedInv
      /\ UNCHANGED <<context, bound, current, jobs>> /\ inFlight # <<>>
  BY DEF IInv, ResetCommandList
<1>1. PICK g \in Head(inFlight).pipelines :
        LET left == [pipelines |-> Head(inFlight).pipelines \ {g}, base |-> {}]
        IN /\ ReleasePipeline(g)
           /\ inFlight' = IF left = Unused THEN Tail(inFlight) ELSE [inFlight EXCEPT ![1] = left]
  BY DEF ResetCommandList
<1>2. PICK left : left = [pipelines |-> Head(inFlight).pipelines \ {g}, base |-> {}]
  OBVIOUS
<1>3. /\ ReleasePipeline(g)
      /\ inFlight' = IF left = Unused THEN Tail(inFlight) ELSE [inFlight EXCEPT ![1] = left]
  BY <1>1, <1>2
<1>4. /\ current \in Lists /\ inFlight \in Seq(Lists) /\ jobs \in Seq(JobRecords)
      /\ \A i \in 1 .. Len(inFlight) : inFlight[i].base \subseteq inFlight[i].pipelines
  BY <1>0 DEF DataInv
<1>5. /\ Len(inFlight) >= 1 /\ Head(inFlight) = inFlight[1] /\ Head(inFlight) \in Lists
      /\ Tail(inFlight) \in Seq(Lists) /\ Len(Tail(inFlight)) = Len(inFlight) - 1
      /\ \A i \in 1 .. Len(inFlight) - 1 : Tail(inFlight)[i] = inFlight[i + 1]
  BY <1>0, <1>4, ListsTail
<1>6. g \in Pipelines /\ left \in Lists
  BY <1>2, <1>5 DEF Lists
<1>7. left.pipelines = Head(inFlight).pipelines \ {g} /\ left.base = {}
  BY <1>2
<1>8. useCount[g] > 0
  <2>1. PICK k \in 1 .. Len(inFlight) : k = 1
    BY <1>4, <1>5
  <2>2. g \in inFlight[k].pipelines
    BY <1>5, <2>1
  <2> QED
    BY <1>0, <1>6, <2>2, InUse
<1>9. /\ useCount' \in [Pipelines -> Nat]
      /\ \A h \in Pipelines : useCount'[h] = useCount[h] - (IF h = g THEN 1 ELSE 0)
      /\ instance' \in [Pipelines -> [States -> Handles]]
      /\ basePipeline' \in [Pipelines -> {"none", "linked", "failed"}]
      /\ library' \in [handle : BOOLEAN, useCount : Nat, compiledOnce : BOOLEAN]
      /\ LibraryInv'
      /\ \/ UNCHANGED <<instance, basePipeline>>
         \/ /\ useCount'[g] = 0
            /\ \A h \in Pipelines \ {g} : basePipeline'[h] = basePipeline[h] /\ instance'[h] = instance[h]
            /\ \A s \in States : instance'[g][s] = [instance[g][s] EXCEPT !.base = FALSE]
  BY <1>0, <1>3, <1>6, <1>8, ReleaseStep
<1>10. /\ inFlight' \in Seq(Lists)
       /\ \A i \in 1 .. Len(inFlight') : inFlight'[i].base \subseteq inFlight'[i].pipelines
       /\ \A i \in 1 .. Len(inFlight') : \A h \in inFlight'[i].base : basePipeline[h] = "linked"
  <2>0. \A i \in 1 .. Len(inFlight) : \A h \in inFlight[i].base : basePipeline[h] = "linked"
    BY <1>0 DEF RecordedInv
  <2>1. CASE left = Unused
    <3>1. inFlight' = Tail(inFlight)
      BY <1>3, <2>1
    <3>2. \A i \in 1 .. Len(inFlight') : i + 1 \in 1 .. Len(inFlight) /\ inFlight'[i] = inFlight[i + 1]
      BY <1>4, <1>5, <3>1
    <3> QED
      BY <1>4, <1>5, <2>0, <3>1, <3>2
  <2>2. CASE left # Unused
    <3>1. inFlight' = [inFlight EXCEPT ![1] = left]
      BY <1>3, <2>2
    <3>2. /\ inFlight' \in Seq(Lists) /\ Len(inFlight') = Len(inFlight) /\ inFlight'[1] = left
          /\ \A i \in 2 .. Len(inFlight) : inFlight'[i] = inFlight[i]
      BY <1>0, <1>4, <1>6, <3>1, ListsShrink
    <3>3. \A i \in 1 .. Len(inFlight) : i = 1 \/ i \in 2 .. Len(inFlight)
      BY <1>4
    <3>4. \A i \in 1 .. Len(inFlight') : inFlight'[i] = left \/ (i \in 1 .. Len(inFlight) /\ inFlight'[i] = inFlight[i])
      BY <3>2, <3>3
    <3> QED
      BY <1>4, <1>7, <2>0, <3>2, <3>4
  <2> QED
    BY <2>1, <2>2
<1>11. DataInv'
  BY <1>0, <1>9, <1>10 DEF DataInv, TypeOK
<1>12. UseInv'
  <2> SUFFICES ASSUME NEW h \in Pipelines PROVE useCount'[h] = Uses(current', inFlight', jobs', h)
    BY DEF UseInv
  <2>1. /\ inFlight # <<>> /\ g \in inFlight[1].pipelines
        /\ current \in Lists /\ inFlight \in Seq(Lists) /\ jobs \in Seq(JobRecords)
        /\ left \in Lists /\ left.pipelines = inFlight[1].pipelines \ {g}
    BY <1>0, <1>4, <1>5, <1>6, <1>7
  <2>2. CASE left = Unused
    <3>1. h \in inFlight[1].pipelines <=> h = g
      BY <2>1, <2>2 DEF Unused
    <3>2. Uses(current, inFlight, jobs, h)
            = Uses(current, Tail(inFlight), jobs, h) + (IF h \in inFlight[1].pipelines THEN 1 ELSE 0)
      BY <2>1, UsesTail
    <3>3. Uses(current, Tail(inFlight), jobs, h) \in Nat
      BY <1>5, <2>1, UsesFacts
    <3>4. inFlight' = Tail(inFlight)
      BY <1>3, <2>2
    <3>5. useCount[h] = Uses(current, inFlight, jobs, h)
      BY <1>0 DEF UseInv
    <3> QED
      BY <1>0, <1>9, <3>1, <3>2, <3>3, <3>4, <3>5
  <2>3. CASE left # Unused
    <3>1. Uses(current, [inFlight EXCEPT ![1] = left], jobs, h)
            = Uses(current, inFlight, jobs, h) - (IF h = g THEN 1 ELSE 0)
      BY <2>1, UsesShrink
    <3>2. inFlight' = [inFlight EXCEPT ![1] = left]
      BY <1>3, <2>3
    <3> QED
      BY <1>0, <1>9, <3>1, <3>2 DEF UseInv
  <2> QED
    BY <2>2, <2>3
<1>13. \A h \in current'.base : basePipeline[h] = "linked"
  BY <1>0 DEF RecordedInv
<1>14. InstanceInv' /\ RecordedInv'
  BY <1>0, <1>6, <1>9, <1>10, <1>11, <1>12, <1>13, AfterRelease
<1> QED
  BY <1>9, <1>11, <1>12, <1>14 DEF IInv

\* How far a job is changes, and nothing else of it.
LEMMA StepFacts ==
  ASSUME DataInv, NEW i \in DOMAIN jobs, NEW from \in {"queued", "compile", "release"},
         NEW to \in {"compile", "release", "done"}, Step(i, from, to)
  PROVE  /\ i \in 1 .. Len(jobs) /\ jobs[i] \in JobRecords /\ jobs[i].at = from
         /\ jobs' \in Seq(JobRecords) /\ Len(jobs') = Len(jobs) /\ Len(jobs) \in Nat
         /\ jobs'[i].pipeline = jobs[i].pipeline /\ jobs'[i].state = jobs[i].state /\ jobs'[i].at = to
         /\ \A k \in 1 .. Len(jobs) : k # i => jobs'[k] = jobs[k]
         /\ \A h : Uses(current, inFlight, jobs', h) =
              Uses(current, inFlight, jobs, h) - (IF h = jobs[i].pipeline /\ to = "done" THEN 1 ELSE 0)
<1>1. /\ current \in Lists /\ inFlight \in Seq(Lists) /\ jobs \in Seq(JobRecords)
      /\ jobs[i].at = from /\ jobs' = [jobs EXCEPT ![i].at = to]
  BY Types DEF Step
<1>2. i \in 1 .. Len(jobs) /\ jobs[i] \in JobRecords /\ Len(jobs) \in Nat
  BY <1>1
<1>3. PICK j : j = [jobs[i] EXCEPT !.at = to]
  OBVIOUS
<1>4. j \in JobRecords /\ j.pipeline = jobs[i].pipeline /\ j.state = jobs[i].state /\ j.at = to
  BY <1>2, <1>3 DEF JobRecords
<1>5. jobs' = [jobs EXCEPT ![i] = j]
  BY <1>1, <1>3
<1>6. jobs[i].at # "done"
  BY <1>1
<1>7. /\ jobs' \in Seq(JobRecords) /\ Len(jobs') = Len(jobs) /\ jobs'[i] = j
      /\ \A k \in 1 .. Len(jobs) : k # i => jobs'[k] = jobs[k]
  <2>1. jobs \in Seq(JobRecords)
    BY <1>1
  <2>2. [jobs EXCEPT ![i] = j] \in Seq(JobRecords) /\ Len([jobs EXCEPT ![i] = j]) = Len(jobs)
    BY <1>2, <1>4, <2>1, ExceptSeq
  <2>3. [jobs EXCEPT ![i] = j][i] = j /\ \A k \in 1 .. Len(jobs) : k # i => [jobs EXCEPT ![i] = j][k] = jobs[k]
    BY <1>2, <2>1
  <2> QED
    BY <1>5, <2>2, <2>3
<1>8. ASSUME NEW h
      PROVE  Uses(current, inFlight, jobs', h) =
               Uses(current, inFlight, jobs, h) - (IF h = jobs[i].pipeline /\ to = "done" THEN 1 ELSE 0)
  <2>1. Uses(current, inFlight, [jobs EXCEPT ![i] = j], h) =
          Uses(current, inFlight, jobs, h) - (IF h = jobs[i].pipeline /\ j.at = "done" THEN 1 ELSE 0)
    <3>1. current \in Lists /\ inFlight \in Seq(Lists) /\ jobs \in Seq(JobRecords)
      BY <1>1
    <3>2. i \in 1 .. Len(jobs) /\ j \in JobRecords /\ j.pipeline = jobs[i].pipeline
      BY <1>2, <1>4
    <3> QED
      BY <1>6, <3>1, <3>2, UsesStep
  <2> QED
    BY <1>4, <1>5, <2>1
<1> QED
  BY <1>1, <1>2, <1>4, <1>7, <1>8

LEMMA FinishKeeps ==
  ASSUME IInv, NEW i \in DOMAIN jobs, FinishJob(i)
  PROVE  IInv'
<1>0. /\ DataInv /\ UseInv /\ LibraryInv /\ InstanceInv /\ RecordedInv
      /\ UNCHANGED <<context, bound, current, inFlight>>
      /\ Step(i, "release", "done") /\ ReleasePipeline(jobs[i].pipeline)
  BY DEF IInv, FinishJob, contextVars
<1>1. PICK g : g = jobs[i].pipeline
  OBVIOUS
<1>2. PICK from \in {"queued", "compile", "release"}, to \in {"compile", "release", "done"} :
        from = "release" /\ to = "done"
  OBVIOUS
<1>3. Step(i, from, to)
  BY <1>0, <1>2
<1>4. /\ i \in 1 .. Len(jobs) /\ jobs[i] \in JobRecords /\ jobs[i].at = "release"
      /\ jobs' \in Seq(JobRecords) /\ Len(jobs') = Len(jobs)
      /\ jobs'[i].pipeline = jobs[i].pipeline /\ jobs'[i].state = jobs[i].state /\ jobs'[i].at = "done"
      /\ \A k \in 1 .. Len(jobs) : k # i => jobs'[k] = jobs[k]
      /\ \A h : Uses(current, inFlight, jobs', h) =
           Uses(current, inFlight, jobs, h) - (IF h = g THEN 1 ELSE 0)
  BY <1>0, <1>1, <1>2, <1>3, StepFacts
<1>5. g \in Pipelines
  BY <1>1, <1>4 DEF JobRecords
<1>6. useCount[g] > 0
  BY <1>0, <1>1, <1>4, <1>5, InUse
<1>7. ReleasePipeline(g)
  BY <1>0, <1>1
<1>9. /\ useCount' \in [Pipelines -> Nat]
      /\ \A h \in Pipelines : useCount'[h] = useCount[h] - (IF h = g THEN 1 ELSE 0)
      /\ instance' \in [Pipelines -> [States -> Handles]]
      /\ basePipeline' \in [Pipelines -> {"none", "linked", "failed"}]
      /\ library' \in [handle : BOOLEAN, useCount : Nat, compiledOnce : BOOLEAN]
      /\ LibraryInv'
      /\ \/ UNCHANGED <<instance, basePipeline>>
         \/ /\ useCount'[g] = 0
            /\ \A h \in Pipelines \ {g} : basePipeline'[h] = basePipeline[h] /\ instance'[h] = instance[h]
            /\ \A s \in States : instance'[g][s] = [instance[g][s] EXCEPT !.base = FALSE]
  BY <1>0, <1>5, <1>6, <1>7, ReleaseStep
<1>10. DataInv'
  BY <1>0, <1>4, <1>9 DEF DataInv, TypeOK
<1>11. UseInv'
  <2> SUFFICES ASSUME NEW h \in Pipelines PROVE useCount'[h] = Uses(current', inFlight', jobs', h)
    BY DEF UseInv
  <2>1. useCount[h] = Uses(current, inFlight, jobs, h)
    BY <1>0 DEF UseInv
  <2> QED
    BY <1>0, <1>4, <1>9, <2>1
<1>12. \A h \in Pipelines, s \in States, at \in {"compile", "queued"} :
         HasJob(jobs, h, s, at) => HasJob(jobs', h, s, at)
  BY <1>4 DEF HasJob
<1>13. /\ \A h \in current'.base : basePipeline[h] = "linked"
       /\ \A k \in 1 .. Len(inFlight') : \A h \in inFlight'[k].base : basePipeline[h] = "linked"
  BY <1>0 DEF RecordedInv
<1>14. InstanceInv' /\ RecordedInv'
  BY <1>0, <1>5, <1>9, <1>10, <1>11, <1>12, <1>13, AfterRelease
<1> QED
  BY <1>9, <1>10, <1>11, <1>14 DEF IInv

\* A job that goes on, without its pipeline being released, keeps what is said of users.
LEMMA JobGoesOn ==
  ASSUME DataInv, UseInv, RecordedInv, NEW i \in DOMAIN jobs, NEW from \in {"queued", "compile"},
         NEW to \in {"compile", "release"}, Step(i, from, to),
         UNCHANGED <<useCount, context, bound, current, inFlight>>,
         instance' \in [Pipelines -> [States -> Handles]],
         basePipeline' \in [Pipelines -> {"none", "linked", "failed"}],
         library' \in [handle : BOOLEAN, useCount : Nat, compiledOnce : BOOLEAN],
         \A h \in Pipelines : basePipeline[h] = "linked" => basePipeline'[h] = "linked"
  PROVE  /\ DataInv' /\ UseInv' /\ RecordedInv'
         /\ \A h, s, at : at # from /\ HasJob(jobs, h, s, at) => HasJob(jobs', h, s, at)
         /\ \A h, s : <<h, s>> # <<jobs[i].pipeline, jobs[i].state>> /\ HasJob(jobs, h, s, from)
                        => HasJob(jobs', h, s, from)
         /\ HasJob(jobs', jobs[i].pipeline, jobs[i].state, to)
         /\ jobs[i].pipeline \in Pipelines /\ jobs[i].state \in States
<1>1. /\ i \in 1 .. Len(jobs) /\ jobs[i] \in JobRecords /\ jobs[i].at = from
      /\ jobs' \in Seq(JobRecords) /\ Len(jobs') = Len(jobs) /\ Len(jobs) \in Nat
      /\ jobs'[i].pipeline = jobs[i].pipeline /\ jobs'[i].state = jobs[i].state /\ jobs'[i].at = to
      /\ \A k \in 1 .. Len(jobs) : k # i => jobs'[k] = jobs[k]
      /\ \A h : Uses(current, inFlight, jobs', h) =
           Uses(current, inFlight, jobs, h) - (IF h = jobs[i].pipeline /\ to = "done" THEN 1 ELSE 0)
  <2>1. from \in {"queued", "compile", "release"} /\ to \in {"compile", "release", "done"}
    OBVIOUS
  <2> QED
    BY <2>1, StepFacts
<1>2. DataInv'
  BY <1>1 DEF DataInv, TypeOK
<1>3. UseInv'
  <2> SUFFICES ASSUME NEW h \in Pipelines PROVE useCount'[h] = Uses(current', inFlight', jobs', h)
    BY DEF UseInv
  <2>1. Uses(current, inFlight, jobs, h) \in Nat /\ useCount[h] = Uses(current, inFlight, jobs, h)
    BY Types, UsesFacts DEF UseInv
  <2>2. Uses(current, inFlight, jobs', h) = Uses(current, inFlight, jobs, h)
    BY <1>1, <2>1
  <2> QED
    BY <2>1, <2>2
<1>4. RecordedInv'
  <2>1. current \in Lists /\ \A k \in 1 .. Len(inFlight) : inFlight[k] \in Lists
    BY Types
  <2>2. current.base \subseteq Pipelines /\ \A k \in 1 .. Len(inFlight) : inFlight[k].base \subseteq Pipelines
    BY <2>1 DEF Lists
  <2> QED
    BY <2>2 DEF RecordedInv
<1>5. \A h, s, at : at # from /\ HasJob(jobs, h, s, at) => HasJob(jobs', h, s, at)
  BY <1>1 DEF HasJob
<1>6. \A h, s : <<h, s>> # <<jobs[i].pipeline, jobs[i].state>> /\ HasJob(jobs, h, s, from)
                  => HasJob(jobs', h, s, from)
  BY <1>1 DEF HasJob
<1>7. HasJob(jobs', jobs[i].pipeline, jobs[i].state, to)
  BY <1>1 DEF HasJob
<1>8. jobs[i].pipeline \in Pipelines /\ jobs[i].state \in States
  BY <1>1 DEF JobRecords
<1> QED
  BY <1>2, <1>3, <1>4, <1>5, <1>6, <1>7, <1>8

\* What has to hold of one instance after a step.
Served(x, b, q, c, e, g, s) ==
  /\ x.base => b = "linked"
  /\ x.exists => x.base \/ x.fast
  /\ x.exists /\ ~x.fast => IF x.isCompiling THEN HasJob(q, g, s, "compile")
                            ELSE (c = "job" /\ e = <<g, s>>) \/ HasJob(q, g, s, "queued")

LEMMA ServedInstances ==
  /\ InstanceInv <=> \A g \in Pipelines, s \in States :
       Served(instance[g][s], basePipeline[g], jobs, context, bound, g, s)
  /\ InstanceInv' <=> \A g \in Pipelines, s \in States :
       Served(instance'[g][s], basePipeline'[g], jobs', context', bound', g, s)
BY DEF InstanceInv, WillCompile, Served

LEMMA CompileKeeps ==
  ASSUME IInv, NEW i \in DOMAIN jobs, CompilePipeline(i)
  PROVE  IInv'
<1>0. /\ DataInv /\ UseInv /\ LibraryInv /\ InstanceInv /\ RecordedInv
      /\ UNCHANGED <<useCount, context, bound, current, inFlight>>
  BY DEF IInv, CompilePipeline, contextVars
<1>1. /\ instance \in [Pipelines -> [States -> Handles]]
      /\ basePipeline \in [Pipelines -> {"none", "linked", "failed"}]
      /\ library \in [handle : BOOLEAN, useCount : Nat, compiledOnce : BOOLEAN]
  BY <1>0, Types
<1>2. PICK g, s : g = jobs[i].pipeline /\ s = jobs[i].state
  OBVIOUS
<1>3. PICK from \in {"queued", "compile"} : from = "queued"
  OBVIOUS
<1>4. g \in Pipelines /\ s \in States
  <2>1. jobs \in Seq(JobRecords)
    BY <1>0, Types
  <2>2. jobs[i] \in JobRecords
    BY <2>1
  <2> QED
    BY <1>2, <2>2 DEF JobRecords
<1>5. \A h \in Pipelines, t \in States :
        Served(instance[h][t], basePipeline[h], jobs, context, bound, h, t)
  BY <1>0, ServedInstances
<1>6. CASE instance[g][s].exists /\ ~instance[g][s].isCompiling
  <2>1. PICK to \in {"compile", "release"} : to = "compile"
    OBVIOUS
  <2>2. /\ Step(i, from, to)
        /\ instance' = [instance EXCEPT ![g][s].isCompiling = TRUE]
        /\ UNCHANGED <<basePipeline, library>>
    BY <1>2, <1>3, <1>6, <2>1 DEF CompilePipeline
  <2>3. /\ instance' \in [Pipelines -> [States -> Handles]]
        /\ \A h \in Pipelines, t \in States : <<h, t>> # <<g, s>> => instance'[h][t] = instance[h][t]
        /\ instance'[g][s].isCompiling
        /\ instance'[g][s].base <=> instance[g][s].base
        /\ instance'[g][s].exists <=> instance[g][s].exists
        /\ instance'[g][s].fast <=> instance[g][s].fast
        /\ basePipeline' \in [Pipelines -> {"none", "linked", "failed"}]
        /\ library' \in [handle : BOOLEAN, useCount : Nat, compiledOnce : BOOLEAN]
        /\ \A h \in Pipelines : basePipeline[h] = "linked" => basePipeline'[h] = "linked"
    <3>1. PICK x : x = [instance[g][s] EXCEPT !.isCompiling = TRUE]
      OBVIOUS
    <3>2. instance' = [instance EXCEPT ![g][s] = x]
      BY <2>2, <3>1
    <3>3. instance[g][s] \in Handles
      BY <1>1, <1>4
    <3>4. /\ x \in Handles /\ x.isCompiling /\ (x.base <=> instance[g][s].base)
          /\ x.exists <=> instance[g][s].exists
          /\ x.fast <=> instance[g][s].fast
      BY <3>1, <3>3 DEF Handles
    <3>5. /\ instance' \in [Pipelines -> [States -> Handles]]
          /\ \A h \in Pipelines, t \in States : <<h, t>> # <<g, s>> => instance'[h][t] = instance[h][t]
          /\ instance'[g][s] = x
      BY <1>1, <1>4, <3>2, <3>4
    <3> QED
      BY <1>1, <2>2, <3>4, <3>5
  <2>4. /\ DataInv' /\ UseInv' /\ RecordedInv'
        /\ \A h, t, at : at # from /\ HasJob(jobs, h, t, at) => HasJob(jobs', h, t, at)
        /\ \A h, t : <<h, t>> # <<g, s>> /\ HasJob(jobs, h, t, from) => HasJob(jobs', h, t, from)
        /\ HasJob(jobs', g, s, to)
    <3>1. /\ Step(i, from, to) /\ instance' \in [Pipelines -> [States -> Handles]]
          /\ basePipeline' \in [Pipelines -> {"none", "linked", "failed"}]
          /\ library' \in [handle : BOOLEAN, useCount : Nat, compiledOnce : BOOLEAN]
          /\ \A h \in Pipelines : basePipeline[h] = "linked" => basePipeline'[h] = "linked"
      BY <2>2, <2>3
    <3>2. /\ DataInv' /\ UseInv' /\ RecordedInv'
          /\ \A h, t, at : at # from /\ HasJob(jobs, h, t, at) => HasJob(jobs', h, t, at)
          /\ \A h, t : <<h, t>> # <<jobs[i].pipeline, jobs[i].state>> /\ HasJob(jobs, h, t, from)
                         => HasJob(jobs', h, t, from)
          /\ HasJob(jobs', jobs[i].pipeline, jobs[i].state, to)
      BY <1>0, <3>1, JobGoesOn
    <3> QED
      BY <1>2, <3>2
  <2>5. LibraryInv'
    BY <1>0, <2>2 DEF LibraryInv, LinkedPipelines
  <2>6. ASSUME NEW h \in Pipelines, NEW t \in States
        PROVE Served(instance'[h][t], basePipeline'[h], jobs', context', bound', h, t)
    <3>1. Served(instance[h][t], basePipeline[h], jobs, context, bound, h, t)
      BY <1>5
    <3>2. CASE <<h, t>> # <<g, s>>
      <4>1. instance'[h][t] = instance[h][t] /\ basePipeline'[h] = basePipeline[h]
        BY <2>2, <2>3, <3>2
      <4>2. /\ HasJob(jobs, h, t, "compile") => HasJob(jobs', h, t, "compile")
            /\ HasJob(jobs, h, t, "queued") => HasJob(jobs', h, t, "queued")
        BY <1>3, <2>4, <3>2
      <4> QED
        BY <1>0, <3>1, <4>1, <4>2 DEF Served
    <3>3. CASE <<h, t>> = <<g, s>>
      <4>1. h = g /\ t = s
        BY <3>3
      <4>2. basePipeline'[h] = basePipeline[h]
        BY <2>2
      <4> QED
        BY <2>1, <2>3, <2>4, <3>1, <4>1, <4>2 DEF Served
    <3> QED
      BY <3>2, <3>3
  <2>7. InstanceInv'
    BY <2>6, ServedInstances
  <2> QED
    BY <2>4, <2>5, <2>7 DEF IInv
<1>7. CASE ~(instance[g][s].exists /\ ~instance[g][s].isCompiling)
  <2>1. PICK to \in {"compile", "release"} : to = "release"
    OBVIOUS
  <2>2. /\ Step(i, from, to)
        /\ IF instance[g][s].exists \/ <<g, s>> \in Linkable
           THEN UNCHANGED <<instance, basePipeline, library>>
           ELSE CreateInstance(g, s, FALSE)
    BY <1>2, <1>3, <1>7, <2>1 DEF CompilePipeline
  <2>3. /\ instance' \in [Pipelines -> [States -> Handles]]
        /\ basePipeline' \in [Pipelines -> {"none", "linked", "failed"}]
        /\ library' \in [handle : BOOLEAN, useCount : Nat, compiledOnce : BOOLEAN]
        /\ LibraryInv'
        /\ \A h \in Pipelines : basePipeline[h] = "linked" => basePipeline'[h] = "linked"
        /\ \A h \in Pipelines, t \in States : <<h, t>> # <<g, s>> => instance'[h][t] = instance[h][t]
        /\ \/ instance'[g][s] = instance[g][s]
           \/ instance'[g][s].fast /\ ~instance'[g][s].base
    <3>1. CASE instance[g][s].exists \/ <<g, s>> \in Linkable
      <4>1. UNCHANGED <<instance, basePipeline, library>>
        BY <2>2, <3>1
      <4>2. LibraryInv'
        BY <1>0, <4>1 DEF LibraryInv, LinkedPipelines
      <4> QED
        BY <1>1, <4>1, <4>2
    <3>2. CASE ~(instance[g][s].exists \/ <<g, s>> \in Linkable)
      <4>1. PICK link \in BOOLEAN : link <=> FALSE
        OBVIOUS
      <4>2. CreateInstance(g, s, link)
        BY <2>2, <3>2, <4>1
      <4>3. /\ instance' \in [Pipelines -> [States -> Handles]]
            /\ basePipeline' \in [Pipelines -> {"none", "linked", "failed"}]
            /\ library' \in [handle : BOOLEAN, useCount : Nat, compiledOnce : BOOLEAN]
            /\ LibraryInv'
            /\ \A h \in Pipelines : basePipeline[h] = "linked" => basePipeline'[h] = "linked"
            /\ \A h \in Pipelines, t \in States : <<h, t>> # <<g, s>> => instance'[h][t] = instance[h][t]
            /\ (instance'[g][s].fast <=> ~instance'[g][s].base)
            /\ ~link => instance'[g][s].fast
        BY <1>0, <1>4, <4>2, CreateStep
      <4> QED
        BY <4>1, <4>3
    <3> QED
      BY <3>1, <3>2
  <2>4. /\ DataInv' /\ UseInv' /\ RecordedInv'
        /\ \A h, t, at : at # from /\ HasJob(jobs, h, t, at) => HasJob(jobs', h, t, at)
        /\ \A h, t : <<h, t>> # <<g, s>> /\ HasJob(jobs, h, t, from) => HasJob(jobs', h, t, from)
    BY <1>0, <1>2, <2>2, <2>3, JobGoesOn
  <2>5. ASSUME NEW h \in Pipelines, NEW t \in States
        PROVE Served(instance'[h][t], basePipeline'[h], jobs', context', bound', h, t)
    <3>1. Served(instance[h][t], basePipeline[h], jobs, context, bound, h, t)
      BY <1>5
    <3>2. CASE <<h, t>> # <<g, s>>
      <4>1. /\ instance'[h][t] = instance[h][t]
            /\ basePipeline[h] = "linked" => basePipeline'[h] = "linked"
        BY <2>3, <3>2
      <4>2. /\ HasJob(jobs, h, t, "compile") => HasJob(jobs', h, t, "compile")
            /\ HasJob(jobs, h, t, "queued") => HasJob(jobs', h, t, "queued")
        BY <1>3, <2>4, <3>2
      <4> QED
        BY <1>0, <3>1, <4>1, <4>2 DEF Served
    <3>3. CASE <<h, t>> = <<g, s>>
      <4>1. h = g /\ t = s
        BY <3>3
      <4>2. /\ basePipeline[h] = "linked" => basePipeline'[h] = "linked"
            /\ HasJob(jobs, h, t, "compile") => HasJob(jobs', h, t, "compile")
        BY <1>3, <2>3, <2>4
      <4>3. CASE instance'[g][s] = instance[g][s]
        BY <1>7, <3>1, <4>1, <4>2, <4>3 DEF Served
      <4>4. CASE instance'[g][s].fast /\ ~instance'[g][s].base
        BY <4>1, <4>4 DEF Served
      <4> QED
        BY <2>3, <4>3, <4>4
    <3> QED
      BY <3>2, <3>3
  <2>6. InstanceInv'
    BY <2>5, ServedInstances
  <2> QED
    BY <2>3, <2>4, <2>6 DEF IInv
<1> QED
  BY <1>6, <1>7

LEMMA StoreKeeps ==
  ASSUME IInv, NEW i \in DOMAIN jobs, StoreFast(i)
  PROVE  IInv'
<1>0. /\ DataInv /\ UseInv /\ LibraryInv /\ InstanceInv /\ RecordedInv
      /\ UNCHANGED <<basePipeline, library, useCount, context, bound, current, inFlight>>
  BY DEF IInv, StoreFast, contextVars
<1>1. /\ instance \in [Pipelines -> [States -> Handles]]
      /\ basePipeline \in [Pipelines -> {"none", "linked", "failed"}]
      /\ library \in [handle : BOOLEAN, useCount : Nat, compiledOnce : BOOLEAN]
  BY <1>0, Types
<1>2. PICK g, s : g = jobs[i].pipeline /\ s = jobs[i].state
  OBVIOUS
<1>3. PICK from \in {"queued", "compile"}, to \in {"compile", "release"} : from = "compile" /\ to = "release"
  OBVIOUS
<1>4. g \in Pipelines /\ s \in States
  <2>1. jobs \in Seq(JobRecords)
    BY <1>0, Types
  <2>2. jobs[i] \in JobRecords
    BY <2>1
  <2> QED
    BY <1>2, <2>2 DEF JobRecords
<1>5. Step(i, from, to) /\ instance' = [instance EXCEPT ![g][s].fast = TRUE]
  BY <1>2, <1>3 DEF StoreFast
<1>6. /\ instance' \in [Pipelines -> [States -> Handles]]
      /\ \A h \in Pipelines, t \in States : <<h, t>> # <<g, s>> => instance'[h][t] = instance[h][t]
      /\ instance'[g][s].fast
      /\ instance'[g][s].base <=> instance[g][s].base
      /\ basePipeline' \in [Pipelines -> {"none", "linked", "failed"}]
      /\ library' \in [handle : BOOLEAN, useCount : Nat, compiledOnce : BOOLEAN]
      /\ \A h \in Pipelines : basePipeline[h] = "linked" => basePipeline'[h] = "linked"
  <2>1. PICK x : x = [instance[g][s] EXCEPT !.fast = TRUE]
    OBVIOUS
  <2>2. instance' = [instance EXCEPT ![g][s] = x]
    BY <1>5, <2>1
  <2>3. instance[g][s] \in Handles
    BY <1>1, <1>4
  <2>4. x \in Handles /\ x.fast /\ (x.base <=> instance[g][s].base)
    BY <2>1, <2>3 DEF Handles
  <2>5. /\ instance' \in [Pipelines -> [States -> Handles]]
        /\ \A h \in Pipelines, t \in States : <<h, t>> # <<g, s>> => instance'[h][t] = instance[h][t]
        /\ instance'[g][s] = x
    BY <1>1, <1>4, <2>2, <2>4
  <2> QED
    BY <1>0, <1>1, <2>4, <2>5
<1>7. /\ DataInv' /\ UseInv' /\ RecordedInv'
      /\ \A h, t, at : at # from /\ HasJob(jobs, h, t, at) => HasJob(jobs', h, t, at)
      /\ \A h, t : <<h, t>> # <<g, s>> /\ HasJob(jobs, h, t, from) => HasJob(jobs', h, t, from)
  <2>1. /\ Step(i, from, to) /\ instance' \in [Pipelines -> [States -> Handles]]
        /\ basePipeline' \in [Pipelines -> {"none", "linked", "failed"}]
        /\ library' \in [handle : BOOLEAN, useCount : Nat, compiledOnce : BOOLEAN]
        /\ \A h \in Pipelines : basePipeline[h] = "linked" => basePipeline'[h] = "linked"
    BY <1>5, <1>6
  <2>2. /\ DataInv' /\ UseInv' /\ RecordedInv'
        /\ \A h, t, at : at # from /\ HasJob(jobs, h, t, at) => HasJob(jobs', h, t, at)
        /\ \A h, t : <<h, t>> # <<jobs[i].pipeline, jobs[i].state>> /\ HasJob(jobs, h, t, from)
                       => HasJob(jobs', h, t, from)
    BY <1>0, <2>1, JobGoesOn
  <2> QED
    BY <1>2, <2>2
<1>8. LibraryInv'
  BY <1>0 DEF LibraryInv, LinkedPipelines
<1>9. ASSUME NEW h \in Pipelines, NEW t \in States
      PROVE Served(instance'[h][t], basePipeline'[h], jobs', context', bound', h, t)
  <2>1. Served(instance[h][t], basePipeline[h], jobs, context, bound, h, t)
    BY <1>0, ServedInstances
  <2>2. CASE <<h, t>> # <<g, s>>
    <3>1. instance'[h][t] = instance[h][t]
      BY <1>6, <2>2
    <3>2. /\ HasJob(jobs, h, t, "compile") => HasJob(jobs', h, t, "compile")
          /\ HasJob(jobs, h, t, "queued") => HasJob(jobs', h, t, "queued")
      BY <1>3, <1>7, <2>2
    <3> QED
      BY <1>0, <2>1, <3>1, <3>2 DEF Served
  <2>3. CASE <<h, t>> = <<g, s>>
    <3>1. h = g /\ t = s
      BY <2>3
    <3> QED
      BY <1>0, <1>6, <2>1, <3>1 DEF Served
  <2> QED
    BY <2>2, <2>3
<1>10. InstanceInv'
  BY <1>9, ServedInstances
<1> QED
  BY <1>7, <1>8, <1>10 DEF IInv

LEMMA LibraryKeeps ==
  ASSUME IInv, CompileLibrary
  PROVE  IInv'
<1>0. /\ DataInv /\ UseInv /\ LibraryInv /\ InstanceInv /\ RecordedInv
      /\ UNCHANGED <<instance, basePipeline, useCount, context, bound, current, inFlight, jobs>>
      /\ ~library.compiledOnce
      /\ library' = [library EXCEPT !.handle = FALSE, !.compiledOnce = TRUE]
  BY DEF IInv, CompileLibrary, contextVars
<1>1. library \in [handle : BOOLEAN, useCount : Nat, compiledOnce : BOOLEAN]
  BY <1>0, Types
<1>2. /\ library' \in [handle : BOOLEAN, useCount : Nat, compiledOnce : BOOLEAN]
      /\ ~library'.handle /\ library'.useCount = library.useCount /\ library'.compiledOnce
  BY <1>0, <1>1
<1>3. DataInv'
  BY <1>0, <1>2 DEF DataInv, TypeOK
<1>4. LibraryInv'
  BY <1>0, <1>1, <1>2 DEF LibraryInv, LinkedPipelines
<1>5. UseInv' /\ RecordedInv'
  BY <1>0 DEF UseInv, RecordedInv
<1>6. InstanceInv'
  BY <1>0, InstancesKept
<1> QED
  BY <1>3, <1>4, <1>5, <1>6 DEF IInv

-----------------------------------------------------------------------------
LEMMA NextInv == IInv /\ [Next]_vars => IInv'
<1> SUFFICES ASSUME IInv, [Next]_vars PROVE IInv'
  OBVIOUS
<1>1. ASSUME NEW g \in Pipelines, TrackGraphicsPipeline(g) PROVE IInv'
  BY <1>1, TrackKeeps
<1>2. ASSUME NEW d \in Drawn, GetPipelineHandle(d[1], d[2]) PROVE IInv'
  <2>1. d[1] \in Pipelines /\ d[2] \in States
    BY PipelinesAssumption
  <2> QED
    BY <1>2, <2>1, GetHandleKeeps
<1>3. ASSUME NEW d \in Drawn, CacheCompile(d[1], d[2]) PROVE IInv'
  <2>1. d[1] \in Pipelines /\ d[2] \in States
    BY PipelinesAssumption
  <2>2. Queue(d[1], d[2]) /\ UNCHANGED <<context, bound, current, inFlight>>
    BY <1>3 DEF CacheCompile, contextVars
  <2> QED
    BY <2>1, <2>2, QueueKeeps
<1>4. CASE CompileOptimized
  <2>1. /\ Queue(bound[1], bound[2]) /\ context = "job" /\ context' = "fast"
        /\ UNCHANGED <<bound, current, inFlight>>
    BY <1>4 DEF CompileOptimized
  <2>2. bound \in Pipelines \X States
    BY <2>1 DEF IInv, DataInv
  <2>3. PICK g \in Pipelines, s \in States : bound = <<g, s>>
    BY <2>2
  <2>4. Queue(g, s)
    BY <2>1, <2>3
  <2> QED
    BY <2>1, <2>3, <2>4, QueueKeeps
<1>5. CASE LoadFast \/ LoadBase
  BY <1>5, LoadKeeps
<1>6. CASE FlushCommandList
  BY <1>6, FlushKeeps
<1>7. CASE ResetCommandList
  BY <1>7, ResetKeeps
<1>8. CASE CompileLibrary
  BY <1>8, LibraryKeeps
<1>9. ASSUME NEW i \in DOMAIN jobs, Compiler(i) PROVE IInv'
  BY <1>9, CompileKeeps, StoreKeeps, FinishKeeps DEF Compiler
<1>10. CASE UNCHANGED vars
  <2>1. UNCHANGED <<instance, basePipeline, useCount, library, context, bound, current, inFlight, jobs>>
    BY <1>10 DEF vars, pipelineVars, contextVars
  <2> QED
    BY <2>1, InstancesKept DEF IInv, DataInv, TypeOK, UseInv, LibraryInv, LinkedPipelines, RecordedInv
<1> QED
  BY <1>1, <1>2, <1>3, <1>4, <1>5, <1>6, <1>7, <1>8, <1>9, <1>10 DEF Next

\* The inductive invariant holds in every state of the specification.
THEOREM Invariance == Spec => []IInv
BY InitInv, NextInv, PTL DEF Spec

\* While the GPU may execute a command list, and while an instance can be drawn with, what they
\* were linked into lives; the shader library lives as long as a pipeline linked from it.
THEOREM HandlesStayAlive == Spec => []HandlesAlive
<1>1. IInv => HandlesAlive
  <2> SUFFICES ASSUME IInv PROVE HandlesAlive
    OBVIOUS
  <2>1. DataInv /\ LibraryInv /\ InstanceInv /\ RecordedInv /\ TypeOK
    BY DEF IInv, DataInv
  <2>2. inFlight \in Seq(Lists) /\ library \in [handle : BOOLEAN, useCount : Nat, compiledOnce : BOOLEAN]
    BY <2>1, Types
  <2>3. \A g \in Recorded : basePipeline[g] = "linked"
    <3>1. DOMAIN inFlight = 1 .. Len(inFlight)
      BY <2>2
    <3> QED
      BY <2>1, <3>1 DEF Recorded, RecordedInv
  <2>4. library.handle = (library.useCount > 0)
    <3>1. library.handle \in BOOLEAN /\ (library.handle <=> library.useCount > 0)
      BY <2>1, <2>2 DEF LibraryInv
    <3> QED
      BY <3>1
  <2>5. library.useCount = Cardinality({g \in Pipelines : basePipeline[g] # "none"})
    BY <2>1 DEF LibraryInv, LinkedPipelines
  <2> QED
    BY <2>1, <2>3, <2>4, <2>5 DEF HandlesAlive, InstanceInv
<1> QED
  BY <1>1, Invariance, PTL
-----------------------------------------------------------------------------
(* RenderPass: the context. *)

ContextFields == {"pass", "targets", "dirty", "fb", "rt", "ops", "deferred", "content", "layout",
                  "valid", "stray"}

\* A view of an image there is, with its aspects.
GoodView(v) ==
  /\ DOMAIN v = {"image", "subs", "aspects", "type", "format"}
  /\ Subs(v) \subseteq Subresources /\ Subs(v) # {}
  /\ \A w \in Views : w.image = v.image => w.aspects = v.aspects

GoodEntry(e) ==
  /\ DOMAIN e = {"view", "discard", "clear", "value"}
  /\ GoodView(e.view)
  /\ e.clear \subseteq e.view.aspects /\ e.discard \subseteq e.view.aspects
  /\ \A a \in e.clear : e.value[a] \in Values

\* Deferred clears are of any number, and do not overlap.
GoodClears(d) ==
  /\ d \in Seq({d[k] : k \in DOMAIN d})
  /\ \A k \in DOMAIN d : GoodEntry(d[k])
  /\ \A j, k \in DOMAIN d : j # k => ~Overlap(d[j].view, d[k].view)

GoodContext(s) ==
  /\ DOMAIN s = ContextFields
  /\ s.pass \in {"none", "bound", "suspended"}
  /\ {s.targets, s.fb} \subseteq Targets \cup {<<>>}
  /\ DOMAIN s.rt = DOMAIN s.fb /\ \A i \in DOMAIN s.fb : s.rt[i] \in Layouts
  /\ GoodClears(s.deferred)
  /\ s.layout \in [Subresources -> Layouts]
  /\ s.content \in [Cells -> Values \cup {Undef}]

\* The layouts of all images are known: those of attachments are in m_rtLayouts, and the others
\* are the default ones.
Tracked(s) ==
  ~s.stray =>
    /\ s.valid
    /\ \A i \in DOMAIN s.fb : \A x \in Subs(s.fb[i].view) : s.layout[x] = s.rt[i]
    /\ \A x \in Subresources :
         (\A i \in DOMAIN s.fb : x \notin Subs(s.fb[i].view)) => s.layout[x] = "default"

\* The context between two calls.
Idle(s) ==
  /\ GoodContext(s) /\ Tracked(s)
  /\ s.ops = <<>>
  /\ s.pass = "none" => \A i \in DOMAIN s.fb : s.rt[i] = "default"
  /\ s.pass = "bound" => s.deferred = <<>>

SeenIn(s) == Cleared(s.content, Deferred(s))

\* The images of s hold what p promises, once all that is deferred is executed.
Meets(s, p) ==
  /\ p \in [Cells -> Values \cup {Undef}]
  /\ \A c \in Cells : p[c] \in {Undef, SeenIn(s)[c]}

ContextInv == Idle(ctx) /\ Meets(ctx, promised)

-----------------------------------------------------------------------------
(* Views, their subresources and cells. *)

Place(c) == <<c[1], c[2]>>

LEMMA CellOfView ==
  ASSUME NEW c \in Cells, NEW v, NEW A
  PROVE  /\ c \in CellsOf(v, A) <=> Place(c) \in Subs(v) /\ c[3] \in A
         /\ Place(c) \in Subresources
<1>1. PICK w \in Views : c \in {w.image} \X w.subs \X w.aspects
  BY DEF Cells
<1>2. Place(c) \in Subs(w)
  BY <1>1 DEF Place, Subs
<1> QED
  BY <1>1, <1>2 DEF CellsOf, Place, Subs, Subresources

LEMMA AspectsOfPlace ==
  ASSUME NEW c \in Cells, NEW v, GoodView(v), Place(c) \in Subs(v)
  PROVE  c[3] \in v.aspects
<1>1. PICK w \in Views : c \in {w.image} \X w.subs \X w.aspects
  BY DEF Cells
<1>2. w.image = v.image
  BY <1>1 DEF Place, Subs
<1> QED
  BY <1>1, <1>2 DEF GoodView

LEMMA ViewsAreGood ==
  ASSUME NEW v \in Views
  PROVE  GoodView(v)
<1>1. DOMAIN v = {"image", "subs", "aspects", "type", "format"} /\ v.subs # {}
  BY RenderPassAssumption
<1>2. \A w \in Views : w.image = v.image => w.aspects = v.aspects
  BY RenderPassAssumption
<1>3. Subs(v) # {}
  <2>1. PICK l \in v.subs : TRUE
    BY <1>1
  <2>2. <<v.image, l>> \in Subs(v)
    BY DEF Subs
  <2> QED
    BY <2>2
<1>4. Subs(v) \subseteq Subresources
  BY DEF Subs, Subresources
<1> QED
  BY <1>1, <1>2, <1>3, <1>4 DEF GoodView

LEMMA SameAspects ==
  ASSUME NEW v, NEW w, GoodView(v), GoodView(w), Subs(v) = Subs(w)
  PROVE  v.aspects = w.aspects
<1>1. PICK x \in Subs(v) : x \in Subresources
  BY DEF GoodView
<1>2. PICK u \in Views : x \in {u.image} \X u.subs
  BY <1>1 DEF Subresources
<1>3. u.image = v.image /\ u.image = w.image
  BY <1>1, <1>2 DEF Subs
<1> QED
  BY <1>3 DEF GoodView

\* The cell of the source that a cell is copied from.
LEMMA CopiedCell ==
  ASSUME NEW dst \in Subresources, NEW src \in Subresources, dst[1] = src[1],
         NEW c \in Cells, Place(c) = dst
  PROVE  LET d == <<src[1], src[2], c[3]>> IN d \in Cells /\ Place(d) = src /\ d[3] = c[3]
<1>1. PICK v \in Views : src \in {v.image} \X v.subs
  BY DEF Subresources
<1>2. PICK w \in Views : c \in {w.image} \X w.subs \X w.aspects
  BY DEF Cells
<1>3. w.aspects = v.aspects
  BY <1>1, <1>2, RenderPassAssumption DEF Place
<1>4. <<src[1], src[2], c[3]>> \in {v.image} \X v.subs \X v.aspects
  BY <1>1, <1>2, <1>3
<1> QED
  BY <1>1, <1>4 DEF Cells, Place

LEMMA Attachments ==
  ASSUME NEW t \in Targets \cup {<<>>}, NEW i \in DOMAIN t
  PROVE  /\ t[i].view \in Views /\ t[i].layout \in Layouts
         /\ GoodView(t[i].view)
         /\ \A j \in DOMAIN t : \A x : x \in Subs(t[i].view) /\ x \in Subs(t[j].view) => j = i
<1>1. t \in Targets
  OBVIOUS
<1>2. /\ t[i].view \in Views /\ t[i].layout \in {"attachment", "depth", "read only"}
      /\ \A j \in DOMAIN t : j # i => ~Overlap(t[i].view, t[j].view)
  BY <1>1, RenderPassAssumption
<1> QED
  BY <1>2, ViewsAreGood DEF Overlap, Layouts
-----------------------------------------------------------------------------
(* Sets of clears. *)

LEMMA HitPlace ==
  ASSUME NEW c \in Cells, NEW e, Hits(e, c)
  PROVE  Place(c) \in Subs(e.view) /\ c[3] \in e.clear \cup e.discard
BY CellOfView DEF Hits

EntriesOf(d) == {d[k] : k \in DOMAIN d}

NonOverlapping(C) == \A e, f \in C : e # f => ~Overlap(e.view, f.view)

\* A cell is hit by one clear of a set at most.
LEMMA ClearedAt ==
  ASSUME NEW content, NEW C, NonOverlapping(C), NEW c \in Cells
  PROVE  /\ \A e \in C : Hits(e, c) => Cleared(content, C)[c] = Result(e, c)
         /\ (\A e \in C : ~Hits(e, c)) => Cleared(content, C)[c] = content[c]
<1> DEFINE due == {e \in C : Hits(e, c)}
           f == CHOOSE e \in due : TRUE
<1>1. Cleared(content, C)[c] = IF due = {} THEN content[c] ELSE Result(f, c)
  BY DEF Cleared
<1>2. ASSUME NEW e \in C, Hits(e, c) PROVE Cleared(content, C)[c] = Result(e, c)
  <2>1. e \in due /\ f \in due
    BY <1>2
  <2>2. Place(c) \in Subs(e.view) /\ Place(c) \in Subs(f.view)
    BY <2>1, HitPlace
  <2>3. f = e
    BY <2>1, <2>2 DEF NonOverlapping, Overlap
  <2> HIDE DEF f
  <2> QED
    BY <1>1, <2>1, <2>3
<1>3. ASSUME \A e \in C : ~Hits(e, c) PROVE Cleared(content, C)[c] = content[c]
  BY <1>1, <1>3
<1> QED
  BY <1>2, <1>3

LEMMA ClearedType ==
  ASSUME NEW content \in [Cells -> Values \cup {Undef}], NEW C, \A e \in C : GoodEntry(e)
  PROVE  Cleared(content, C) \in [Cells -> Values \cup {Undef}]
<1>1. ASSUME NEW c \in Cells, NEW e \in C PROVE Result(e, c) \in Values \cup {Undef}
  BY DEF GoodEntry, Result
<1> QED
  BY <1>1 DEF Cleared

LEMMA ClearsDoNotOverlap ==
  ASSUME NEW d, GoodClears(d)
  PROVE  NonOverlapping(EntriesOf(d))
BY DEF GoodClears, NonOverlapping, EntriesOf

LEMMA NoClears == GoodClears(<<>>) /\ EntriesOf(<<>>) = {}
BY DEF GoodClears, EntriesOf

LEMMA Appended ==
  ASSUME NEW d, GoodClears(d), NEW e, GoodEntry(e), \A k \in DOMAIN d : ~Overlap(d[k].view, e.view)
  PROVE  LET r == Append(d, e)
         IN GoodClears(r) /\ EntriesOf(r) = EntriesOf(d) \cup {e}
<1> DEFINE r == Append(d, e)
           D == {d[k] : k \in DOMAIN d}
           R == {r[k] : k \in DOMAIN r}
<1>1. d \in Seq(D)
  BY DEF GoodClears
<1>2. DOMAIN d = 1 .. Len(d) /\ Len(d) \in Nat
  <2> HIDE DEF D
  <2> QED
    BY <1>1
<1>3. /\ DOMAIN r = 1 .. Len(d) + 1 /\ r[Len(d) + 1] = e
      /\ \A k \in 1 .. Len(d) : r[k] = d[k]
      /\ r \in Seq(D \cup {e})
  <2>1. d \in Seq(D \cup {e})
    <3>1. D \subseteq D \cup {e}
      OBVIOUS
    <3> HIDE DEF D
    <3> QED
      BY <1>1, <3>1
  <2> HIDE DEF D
  <2> QED
    BY <1>2, <2>1, AppendProperties
<1>4. R = D \cup {e}
  <2>1. ASSUME NEW f \in R PROVE f \in D \cup {e}
    <3>1. PICK k \in DOMAIN r : f = r[k]
      OBVIOUS
    <3> HIDE DEF r
    <3>2. CASE k = Len(d) + 1
      BY <1>3, <3>1, <3>2
    <3>3. CASE k \in 1 .. Len(d)
      BY <1>2, <1>3, <3>1, <3>3
    <3> QED
      BY <1>2, <1>3, <3>2, <3>3
  <2>2. ASSUME NEW f \in D \cup {e} PROVE f \in R
    <3>1. PICK k \in DOMAIN r : f = r[k]
      <4>1. CASE f = e
        <5>1. Len(d) + 1 \in 1 .. Len(d) + 1
          BY <1>2
        <5> HIDE DEF r
        <5> QED
          BY <1>3, <4>1, <5>1
      <4>2. CASE f \in D
        <5>1. PICK k \in DOMAIN d : f = d[k]
          BY <4>2
        <5>2. k \in 1 .. Len(d) /\ k \in 1 .. Len(d) + 1
          BY <1>2, <5>1
        <5> HIDE DEF r
        <5> QED
          BY <1>3, <5>1, <5>2
      <4> QED
        BY <4>1, <4>2
    <3> QED
      BY <3>1
  <2> QED
    BY <2>1, <2>2
<1>5. r \in Seq(R)
  BY <1>3, <1>4
<1>6. \A k \in DOMAIN r : GoodEntry(r[k])
  <2> HIDE DEF r
  <2> QED
    BY <1>2, <1>3 DEF GoodClears
<1>7. ASSUME NEW j \in DOMAIN r, NEW k \in DOMAIN r, j # k PROVE ~Overlap(r[j].view, r[k].view)
  <2> HIDE DEF r
  <2>1. CASE j \in DOMAIN d /\ k \in DOMAIN d
    BY <1>2, <1>3, <1>7, <2>1 DEF GoodClears
  <2>2. CASE j \notin DOMAIN d
    <3>1. k \in DOMAIN d /\ r[j] = e /\ r[k] = d[k]
      BY <1>2, <1>3, <1>7, <2>2
    <3> QED
      BY <3>1 DEF Overlap
  <2>3. CASE k \notin DOMAIN d
    <3>1. j \in DOMAIN d /\ r[k] = e /\ r[j] = d[j]
      BY <1>2, <1>3, <1>7, <2>3
    <3> QED
      BY <3>1
  <2> QED
    BY <2>1, <2>2, <2>3
<1> HIDE DEF r, D, R
<1>8. GoodClears(r)
  BY <1>5, <1>6, <1>7 DEF GoodClears, R
<1> QED
  BY <1>4, <1>8 DEF r, D, R, EntriesOf

-----------------------------------------------------------------------------
(* Layout transitions. *)

\* r is s but for layouts, contents, and what is known of them.
SameBut(s, r) ==
  /\ DOMAIN r = ContextFields
  /\ r.pass = s.pass /\ r.targets = s.targets /\ r.dirty = s.dirty /\ r.fb = s.fb
  /\ r.deferred = s.deferred

LEMMA BarriersFields ==
  ASSUME NEW s, DOMAIN s = ContextFields, NEW moves
  PROVE  LET r == Barriers(s, moves)
         IN SameBut(s, r) /\ r.rt = s.rt /\ r.ops = s.ops /\ r.stray = s.stray
BY DEF Barriers, SameBut, ContextFields

\* No move from the undefined layout changes contents.
LEMMA MovesKeepContent ==
  ASSUME NEW s, DOMAIN s = ContextFields, s.content \in [Cells -> Values \cup {Undef}], NEW moves,
         \A m \in moves : m.old # "undefined"
  PROVE  Barriers(s, moves).content = s.content
<1> DEFINE r == Barriers(s, moves)
           Of(x) == {m \in moves : x \in Subs(m.view)}
<1>1. r.content = [c \in Cells |-> IF \E m \in Of(Place(c)) : m.old = "undefined"
                                   THEN Undef ELSE s.content[c]]
  BY DEF Barriers, ContextFields, Place
<1>2. \A c \in Cells : ~(\E m \in Of(Place(c)) : m.old = "undefined")
  OBVIOUS
<1> HIDE DEF r, Of
<1>3. r.content = [c \in Cells |-> s.content[c]]
  BY <1>1, <1>2
<1> QED
  BY <1>3 DEF r

\* The moves of some slots from layouts `old' to layouts `new'.
AreMoves(moves, fb, slots, old, new) ==
  /\ \A i \in slots : new[i] \in Layouts /\ Move(fb[i].view, old[i], new[i]) \in moves
  /\ \A m \in moves : \E i \in slots : m = Move(fb[i].view, old[i], new[i])

\* Attachments of some slots go from layouts `old' to layouts `new'.
LEMMA AttachmentsMoved ==
  ASSUME NEW s, GoodContext(s), NEW slots \in SUBSET DOMAIN s.fb, NEW old, NEW new,
         NEW moves, AreMoves(moves, s.fb, slots, old, new)
  PROVE  LET r == Barriers(s, moves)
         IN  /\ r.layout \in [Subresources -> Layouts]
             /\ \A i \in slots : \A x \in Subs(s.fb[i].view) : r.layout[x] = new[i]
             /\ \A x \in Subresources : (\A i \in slots : x \notin Subs(s.fb[i].view)) =>
                  r.layout[x] = s.layout[x]
             /\ r.valid <=> s.valid /\ \A i \in slots : \A x \in Subs(s.fb[i].view) :
                                          old[i] \in {"undefined", s.layout[x]}
<1> DEFINE r == Barriers(s, moves)
           Of(x) == {m \in moves : x \in Subs(m.view)}
           To(x) == IF Of(x) = {} THEN s.layout[x] ELSE (CHOOSE m \in Of(x) : TRUE).new
<1>1. r.layout = [x \in Subresources |-> To(x)]
  BY DEF Barriers, GoodContext, ContextFields
<1>2. \A i \in slots : LET m == Move(s.fb[i].view, old[i], new[i])
                       IN m \in moves /\ m.view = s.fb[i].view /\ m.old = old[i] /\ m.new = new[i]
  BY DEF Move, AreMoves
<1>3. \A m \in moves : \E i \in slots : m = Move(s.fb[i].view, old[i], new[i])
  BY DEF AreMoves
<1>4. s.fb \in Targets \cup {<<>>} /\ s.layout \in [Subresources -> Layouts]
  BY DEF GoodContext
<1>5. ASSUME NEW i \in slots, NEW x \in Subs(s.fb[i].view) PROVE To(x) = new[i]
  <2> DEFINE m == CHOOSE m \in Of(x) : TRUE
  <2>1. Of(x) # {} /\ m \in Of(x)
    BY <1>2, <1>5
  <2>2. m \in moves /\ x \in Subs(m.view)
    BY <2>1
  <2>3. PICK j \in slots : m = Move(s.fb[j].view, old[j], new[j])
    BY <1>3, <2>2
  <2>4. j = i
    <3>1. x \in Subs(s.fb[j].view)
      BY <2>2, <2>3, <1>2
    <3> QED
      BY <1>4, <1>5, <3>1, Attachments
  <2>5. To(x) = m.new
    BY <2>1
  <2> HIDE DEF m, To
  <2> QED
    BY <1>2, <2>3, <2>4, <2>5
<1>6. ASSUME NEW x, \A i \in slots : x \notin Subs(s.fb[i].view) PROVE To(x) = s.layout[x]
  <2>1. Of(x) = {}
    BY <1>2, <1>3, <1>6
  <2> QED
    BY <2>1
<1>7. ASSUME NEW i \in slots, NEW x \in Subs(s.fb[i].view) PROVE x \in Subresources
  BY <1>4, Attachments DEF GoodView
<1>8. r.valid <=> s.valid /\ \A m \in moves : \A x \in Subs(m.view) : m.old \in {"undefined", s.layout[x]}
  BY DEF Barriers, GoodContext, ContextFields
<1>9. r.valid <=> s.valid /\ \A i \in slots : \A x \in Subs(s.fb[i].view) :
                                old[i] \in {"undefined", s.layout[x]}
  <2> HIDE DEF r
  <2> QED
    BY <1>2, <1>3, <1>8
<1>10. ASSUME NEW x \in Subresources PROVE To(x) \in Layouts
  <2> HIDE DEF To
  <2>1. CASE \E i \in slots : x \in Subs(s.fb[i].view)
    BY <1>5, <2>1 DEF AreMoves
  <2>2. CASE \A i \in slots : x \notin Subs(s.fb[i].view)
    BY <1>4, <1>6, <2>2
  <2> QED
    BY <2>1, <2>2
<1> HIDE DEF r, To
<1>11. r.layout \in [Subresources -> Layouts] /\ \A x \in Subresources : r.layout[x] = To(x)
  BY <1>1, <1>10
<1>12. \A i \in slots : \A x \in Subs(s.fb[i].view) : r.layout[x] = new[i]
  BY <1>5, <1>7, <1>11
<1>13. \A x \in Subresources : (\A i \in slots : x \notin Subs(s.fb[i].view)) =>
                               r.layout[x] = s.layout[x]
  BY <1>6, <1>11
<1> QED
  BY <1>9, <1>11, <1>12, <1>13 DEF r

LEMMA GoodSame ==
  ASSUME NEW s, GoodContext(s), NEW r, SameBut(s, r),
         DOMAIN r.rt = DOMAIN s.fb, \A i \in DOMAIN s.fb : r.rt[i] \in Layouts,
         r.layout \in [Subresources -> Layouts], r.content \in [Cells -> Values \cup {Undef}]
  PROVE  GoodContext(r)
BY DEF GoodContext, SameBut

MovedTo(s, r, slots, new) ==
  /\ \A i \in DOMAIN s.fb : r.rt[i] = IF i \in slots THEN new[i] ELSE s.rt[i]
  /\ \A i \in slots : \A x \in Subs(s.fb[i].view) : r.layout[x] = new[i]
  /\ \A x \in Subresources : (\A i \in slots : x \notin Subs(s.fb[i].view)) =>
                             r.layout[x] = s.layout[x]

\* m_rtLayouts follows the attachments that are moved.
LEMMA MovedTracked ==
  ASSUME NEW s, GoodContext(s), Tracked(s), NEW r, r.fb = s.fb, r.stray = s.stray, r.valid,
         NEW slots \in SUBSET DOMAIN s.fb, NEW new, MovedTo(s, r, slots, new)
  PROVE  Tracked(r)
<1> USE DEF MovedTo
<1> SUFFICES ASSUME ~s.stray PROVE Tracked(r)
  BY DEF Tracked
<1>1. s.fb \in Targets \cup {<<>>}
  BY DEF GoodContext
<1>2. ASSUME NEW i \in DOMAIN s.fb, NEW x \in Subs(s.fb[i].view) PROVE r.layout[x] = r.rt[i]
  <2>1. CASE i \in slots
    BY <1>2, <2>1
  <2>2. CASE i \notin slots
    <3>1. x \in Subresources /\ \A j \in slots : x \notin Subs(s.fb[j].view)
      BY <1>1, <1>2, <2>2, Attachments DEF GoodView
    <3>2. r.layout[x] = s.layout[x]
      BY <3>1
    <3> QED
      BY <1>2, <2>2, <3>2 DEF Tracked
  <2> QED
    BY <2>1, <2>2
<1>3. ASSUME NEW x \in Subresources, \A i \in DOMAIN s.fb : x \notin Subs(s.fb[i].view)
      PROVE  r.layout[x] = "default"
  BY <1>3 DEF Tracked
<1> QED
  BY <1>2, <1>3 DEF Tracked

LEMMA ToDefaultMoves ==
  ASSUME NEW s, GoodContext(s), NEW slots \in SUBSET DOMAIN s.fb
  PROVE  LET r == ToDefault(s, slots)
         IN  /\ SameBut(s, r) /\ r.ops = s.ops /\ r.stray = s.stray /\ r.content = s.content
             /\ GoodContext(r)
             /\ Tracked(s) => Tracked(r)
             /\ \A i \in DOMAIN s.fb : r.rt[i] = IF i \in slots THEN "default" ELSE s.rt[i]
<1> DEFINE new == [i \in slots |-> "default"]
           moves == {Move(s.fb[i].view, s.rt[i], "default") : i \in slots}
           u == Barriers(s, moves)
           rt == [i \in DOMAIN s.rt |-> IF i \in slots THEN "default" ELSE s.rt[i]]
           r == ToDefault(s, slots)
<1>1. /\ DOMAIN s = ContextFields /\ DOMAIN s.rt = DOMAIN s.fb
      /\ \A i \in DOMAIN s.fb : s.rt[i] \in Layouts
      /\ s.content \in [Cells -> Values \cup {Undef}]
  BY DEF GoodContext
<1>2. /\ u.layout \in [Subresources -> Layouts]
      /\ \A i \in slots : \A x \in Subs(s.fb[i].view) : u.layout[x] = "default"
      /\ \A x \in Subresources : (\A i \in slots : x \notin Subs(s.fb[i].view)) =>
           u.layout[x] = s.layout[x]
      /\ u.valid <=> s.valid /\ \A i \in slots : \A x \in Subs(s.fb[i].view) :
                                   s.rt[i] \in {"undefined", s.layout[x]}
  <2>1. \A i \in slots : Move(s.fb[i].view, s.rt[i], new[i]) \in moves
    OBVIOUS
  <2>2. \A m \in moves : \E i \in slots : m = Move(s.fb[i].view, s.rt[i], new[i])
    OBVIOUS
  <2>3. \A i \in slots : new[i] = "default" /\ new[i] \in Layouts
    BY DEF Layouts
  <2> HIDE DEF moves, new
  <2>4. AreMoves(moves, s.fb, slots, s.rt, new)
    BY <2>1, <2>2, <2>3 DEF AreMoves
  <2>5. /\ u.layout \in [Subresources -> Layouts]
        /\ \A i \in slots : \A x \in Subs(s.fb[i].view) : u.layout[x] = new[i]
        /\ \A x \in Subresources : (\A i \in slots : x \notin Subs(s.fb[i].view)) =>
             u.layout[x] = s.layout[x]
        /\ u.valid <=> s.valid /\ \A i \in slots : \A x \in Subs(s.fb[i].view) :
                                     s.rt[i] \in {"undefined", s.layout[x]}
    BY <2>4, AttachmentsMoved
  <2> QED
    BY <2>3, <2>5
<1>3. SameBut(s, u) /\ u.rt = s.rt /\ u.ops = s.ops /\ u.stray = s.stray
  BY <1>1, BarriersFields
<1>4. u.content = s.content
  <2>1. ASSUME NEW m \in moves PROVE m.old # "undefined"
    <3>1. PICK i \in slots : m = Move(s.fb[i].view, s.rt[i], "default")
      OBVIOUS
    <3>2. m.old = s.rt[i]
      BY <3>1 DEF Move
    <3> QED
      BY <1>1, <3>2 DEF Layouts
  <2> HIDE DEF moves
  <2> QED
    BY <1>1, <2>1, MovesKeepContent
<1>5. r = [u EXCEPT !.rt = rt]
  BY <1>1, <1>3 DEF ToDefault, SameBut, ContextFields
<1> HIDE DEF u, new, moves
<1>6. /\ SameBut(s, r) /\ r.ops = u.ops /\ r.stray = u.stray /\ r.content = u.content
      /\ r.layout = u.layout /\ r.valid = u.valid /\ r.rt = rt
  BY <1>3, <1>5 DEF SameBut, ContextFields
<1> HIDE DEF r
<1>7. DOMAIN rt = DOMAIN s.fb /\ \A i \in DOMAIN s.fb : rt[i] = IF i \in slots THEN "default" ELSE s.rt[i]
  BY <1>1
<1> HIDE DEF rt
<1>8. GoodContext(r)
  BY <1>1, <1>2, <1>4, <1>6, <1>7, GoodSame DEF Layouts
<1>9. ASSUME Tracked(s) PROVE Tracked(r)
  <2>1. CASE s.stray
    BY <1>3, <1>6, <2>1 DEF Tracked
  <2>2. CASE ~s.stray
    <3>1. r.valid
      BY <1>2, <1>6, <1>9, <2>2 DEF Tracked
    <3>2. \A i \in slots : new[i] = "default"
      BY DEF new
    <3>3. r.fb = s.fb /\ r.stray = s.stray /\ MovedTo(s, r, slots, new)
      BY <1>2, <1>3, <1>6, <1>7, <3>2 DEF SameBut, MovedTo
    <3> QED
      BY <1>9, <3>1, <3>3, MovedTracked
  <2> QED
    BY <2>1, <2>2
<1> QED
  BY <1>3, <1>4, <1>6, <1>7, <1>8, <1>9 DEF r

-----------------------------------------------------------------------------
(* A clear with a render pass of its own. *)

LEMMA ViewMoved ==
  ASSUME NEW s, DOMAIN s = ContextFields, s.layout \in [Subresources -> Layouts],
         s.content \in [Cells -> Values \cup {Undef}],
         NEW v, GoodView(v), NEW old, NEW new \in Layouts
  PROVE  LET r == Barriers(s, {Move(v, old, new)})
         IN  /\ r.layout \in [Subresources -> Layouts]
             /\ \A x \in Subresources : r.layout[x] = IF x \in Subs(v) THEN new ELSE s.layout[x]
             /\ r.content \in [Cells -> Values \cup {Undef}]
             /\ \A c \in Cells : r.content[c] = IF Place(c) \in Subs(v) /\ old = "undefined"
                                               THEN Undef ELSE s.content[c]
             /\ r.valid <=> s.valid /\ \A x \in Subs(v) : old \in {"undefined", s.layout[x]}
<1> DEFINE m == Move(v, old, new)
           r == Barriers(s, {m})
           Of(x) == {n \in {m} : x \in Subs(n.view)}
           To(x) == IF Of(x) = {} THEN s.layout[x] ELSE (CHOOSE n \in Of(x) : TRUE).new
<1>1. m.view = v /\ m.old = old /\ m.new = new
  BY DEF Move
<1>2. /\ r.layout = [x \in Subresources |-> To(x)]
      /\ r.content = [c \in Cells |-> IF \E n \in Of(Place(c)) : n.old = "undefined"
                                      THEN Undef ELSE s.content[c]]
      /\ r.valid <=> s.valid /\ \A n \in {m} : \A x \in Subs(n.view) :
                                  n.old \in {"undefined", s.layout[x]}
  <2> HIDE DEF m
  <2> QED
    BY DEF Barriers, ContextFields, Place
<1> HIDE DEF r, m
<1>3. ASSUME NEW x PROVE To(x) = IF x \in Subs(v) THEN new ELSE s.layout[x]
  <2>1. CASE x \in Subs(v)
    <3>1. Of(x) = {m}
      BY <1>1, <2>1
    <3>2. (CHOOSE n \in Of(x) : TRUE) = m
      BY <3>1
    <3> QED
      BY <1>1, <2>1, <3>1, <3>2
  <2>2. CASE x \notin Subs(v)
    <3>1. Of(x) = {}
      BY <1>1, <2>2
    <3> QED
      BY <2>2, <3>1
  <2> QED
    BY <2>1, <2>2
<1>4. \A c : (\E n \in Of(Place(c)) : n.old = "undefined") <=> Place(c) \in Subs(v) /\ old = "undefined"
  BY <1>1
<1>5. r.valid <=> s.valid /\ \A x \in Subs(v) : old \in {"undefined", s.layout[x]}
  BY <1>1, <1>2
<1> HIDE DEF To, Of
<1>6. r.layout = [x \in Subresources |-> IF x \in Subs(v) THEN new ELSE s.layout[x]]
  BY <1>2, <1>3
<1>7. r.content = [c \in Cells |-> IF Place(c) \in Subs(v) /\ old = "undefined"
                                   THEN Undef ELSE s.content[c]]
  BY <1>2, <1>4
<1>8. /\ r.layout \in [Subresources -> Layouts]
      /\ \A x \in Subresources : r.layout[x] = IF x \in Subs(v) THEN new ELSE s.layout[x]
  BY <1>6
<1>9. /\ r.content \in [Cells -> Values \cup {Undef}]
      /\ \A c \in Cells : r.content[c] = IF Place(c) \in Subs(v) /\ old = "undefined"
                                        THEN Undef ELSE s.content[c]
  BY <1>7
<1> QED
  BY <1>5, <1>8, <1>9 DEF r, m

\* An entry that covers its view hits all cells there.
LEMMA CoveredCells ==
  ASSUME NEW e, GoodEntry(e), Covers(e), NEW c \in Cells, Place(c) \in Subs(e.view)
  PROVE  Hits(e, c)
BY AspectsOfPlace, CellOfView DEF GoodEntry, Covers, Hits

LEMMA ClearedOnce ==
  ASSUME NEW content, NEW e, NEW c \in Cells
  PROVE  Cleared(content, {e})[c] = IF Hits(e, c) THEN Result(e, c) ELSE content[c]
<1>1. NonOverlapping({e})
  BY DEF NonOverlapping
<1> QED
  BY <1>1, ClearedAt

LEMMA ClearedSeparately ==
  ASSUME NEW s, GoodContext(s), NEW e, GoodEntry(e), NEW old \in Layouts, NEW new \in Layouts
  PROVE  LET r == ClearSeparately(s, e, old, new)
         IN  /\ SameBut(s, r) /\ r.rt = s.rt /\ r.ops = s.ops /\ r.stray = s.stray
             /\ r.layout \in [Subresources -> Layouts]
             /\ \A x \in Subresources :
                  r.layout[x] = IF x \in Subs(e.view) THEN new ELSE s.layout[x]
             /\ s.valid /\ (\A x \in Subs(e.view) : s.layout[x] = old) => r.valid
             /\ r.content \in [Cells -> Values \cup {Undef}]
             /\ \A c \in Cells : r.content[c] = IF Hits(e, c) THEN Result(e, c) ELSE s.content[c]
<1> DEFINE from == IF Covers(e) THEN "undefined" ELSE old
           t == Barriers(s, {Move(e.view, from, "attachment")})
           u == [t EXCEPT !.content = Cleared(@, {e})]
           r == Barriers(u, {Move(e.view, "attachment", new)})
<1>1. /\ DOMAIN s = ContextFields /\ s.layout \in [Subresources -> Layouts]
      /\ s.content \in [Cells -> Values \cup {Undef}]
      /\ GoodView(e.view) /\ "attachment" \in Layouts
  BY DEF GoodContext, GoodEntry, Layouts
<1>2. SameBut(s, t) /\ t.rt = s.rt /\ t.ops = s.ops /\ t.stray = s.stray
  BY <1>1, BarriersFields
<1>3. /\ t.layout \in [Subresources -> Layouts]
      /\ \A x \in Subresources :
           t.layout[x] = IF x \in Subs(e.view) THEN "attachment" ELSE s.layout[x]
      /\ t.content \in [Cells -> Values \cup {Undef}]
      /\ \A c \in Cells : t.content[c] = IF Place(c) \in Subs(e.view) /\ from = "undefined"
                                        THEN Undef ELSE s.content[c]
      /\ t.valid <=> s.valid /\ \A x \in Subs(e.view) : from \in {"undefined", s.layout[x]}
  <2> HIDE DEF from
  <2> QED
    BY <1>1, ViewMoved
<1> HIDE DEF t
<1>4. /\ DOMAIN u = ContextFields /\ SameBut(s, u)
      /\ u.rt = s.rt /\ u.ops = s.ops /\ u.stray = s.stray /\ u.layout = t.layout
      /\ u.valid = t.valid /\ u.content = Cleared(t.content, {e})
  BY <1>2 DEF SameBut, ContextFields
<1> HIDE DEF u
<1>11. u.content \in [Cells -> Values \cup {Undef}]
  BY <1>3, <1>4, ClearedType
<1>5. SameBut(u, r) /\ r.rt = u.rt /\ r.ops = u.ops /\ r.stray = u.stray
  BY <1>4, BarriersFields
<1>6. /\ r.layout \in [Subresources -> Layouts]
      /\ \A x \in Subresources : r.layout[x] = IF x \in Subs(e.view) THEN new ELSE u.layout[x]
      /\ r.content \in [Cells -> Values \cup {Undef}]
      /\ \A c \in Cells : r.content[c] = u.content[c]
      /\ r.valid <=> u.valid /\ \A x \in Subs(e.view) : u.layout[x] = "attachment"
  <2> DEFINE a == "attachment"
  <2>1. a \in Layouts /\ a # "undefined"
    BY <1>1
  <2> HIDE DEF a
  <2>2. LET w == Barriers(u, {Move(e.view, a, new)})
        IN /\ w.layout \in [Subresources -> Layouts]
           /\ \A x \in Subresources : w.layout[x] = IF x \in Subs(e.view) THEN new ELSE u.layout[x]
           /\ w.content \in [Cells -> Values \cup {Undef}]
           /\ \A c \in Cells : w.content[c] = IF Place(c) \in Subs(e.view) /\ a = "undefined"
                                             THEN Undef ELSE u.content[c]
           /\ w.valid <=> u.valid /\ \A x \in Subs(e.view) : a \in {"undefined", u.layout[x]}
    BY <1>1, <1>3, <1>4, <1>11, ViewMoved
  <2> QED
    BY <2>1, <2>2 DEF a
<1> HIDE DEF r
<1>7. SameBut(s, r) /\ r.rt = s.rt /\ r.ops = s.ops /\ r.stray = s.stray
  BY <1>4, <1>5 DEF SameBut
<1>8. \A x \in Subresources : r.layout[x] = IF x \in Subs(e.view) THEN new ELSE s.layout[x]
  BY <1>3, <1>4, <1>6
<1>9. ASSUME s.valid, \A x \in Subs(e.view) : s.layout[x] = old
      PROVE  r.valid
  <2>1. t.valid
    BY <1>3, <1>9
  <2>2. \A x \in Subs(e.view) : u.layout[x] = "attachment"
    BY <1>1, <1>3, <1>4 DEF GoodView
  <2> QED
    BY <1>4, <1>6, <2>1, <2>2
<1>13. ASSUME NEW c \in Cells
       PROVE  r.content[c] = IF Hits(e, c) THEN Result(e, c) ELSE s.content[c]
  <2>1. r.content[c] = IF Hits(e, c) THEN Result(e, c) ELSE t.content[c]
    BY <1>4, <1>6, ClearedOnce
  <2>2. ASSUME ~Hits(e, c) PROVE t.content[c] = s.content[c]
    <3>1. CASE Covers(e)
      BY <1>3, <2>2, <3>1, CoveredCells
    <3>2. CASE ~Covers(e)
      <4>1. from # "undefined"
        BY <3>2 DEF Layouts
      <4> HIDE DEF from
      <4> QED
        BY <1>3, <4>1
    <3> QED
      BY <3>1, <3>2
  <2> QED
    BY <2>1, <2>2
<1> QED
  BY <1>6, <1>7, <1>8, <1>9, <1>13 DEF r, u, t, ClearSeparately

-----------------------------------------------------------------------------
(* Executing deferred clears. *)

LEMMA Tracks ==
  ASSUME NEW s, GoodContext(s), Tracked(s), ~s.stray, NEW x \in Subresources
  PROVE  s.layout[x] = "default" \/ \E i \in DOMAIN s.fb : /\ x \in Subs(s.fb[i].view)
                                                         /\ s.layout[x] = s.rt[i]
BY DEF Tracked

LEMMA PerformedAlone ==
  ASSUME NEW s, GoodContext(s), NEW e, GoodEntry(e)
  PROVE  LET r == PerformClear(s, e, {})
         IN  /\ SameBut(s, r) /\ r.rt = s.rt /\ r.ops = s.ops
             /\ GoodContext(r)
             /\ Tracked(s) => Tracked(r)
             /\ \A c \in Cells : r.content[c] = IF Hits(e, c) THEN Result(e, c) ELSE s.content[c]
<1> DEFINE t == ClearSeparately(s, e, "default", "default")
           stray == \/ t.stray
                    \/ \E i \in DOMAIN s.fb : Overlap(s.fb[i].view, e.view) /\ s.rt[i] # "default"
           r == PerformClear(s, e, {})
<1>1. "default" \in Layouts
  BY DEF Layouts
<1>2. /\ SameBut(s, t) /\ t.rt = s.rt /\ t.ops = s.ops /\ t.stray = s.stray
      /\ t.layout \in [Subresources -> Layouts]
      /\ \A x \in Subresources : t.layout[x] = IF x \in Subs(e.view) THEN "default" ELSE s.layout[x]
      /\ s.valid /\ (\A x \in Subs(e.view) : s.layout[x] = "default") => t.valid
      /\ t.content \in [Cells -> Values \cup {Undef}]
      /\ \A c \in Cells : t.content[c] = IF Hits(e, c) THEN Result(e, c) ELSE s.content[c]
  BY <1>1, ClearedSeparately
<1>3. r = [t EXCEPT !.stray = stray]
  BY <1>2 DEF PerformClear, SameBut, ContextFields
<1> HIDE DEF t
<1>4. /\ SameBut(s, r) /\ r.rt = s.rt /\ r.ops = s.ops /\ r.stray = stray
      /\ r.layout = t.layout /\ r.valid = t.valid /\ r.content = t.content
  <2> HIDE DEF stray
  <2> QED
    BY <1>2, <1>3 DEF SameBut, ContextFields
<1> HIDE DEF r
<1>5. GoodContext(r)
  BY <1>2, <1>4, GoodSame DEF GoodContext
<1>6. ASSUME Tracked(s), ~r.stray PROVE Tracked(r)
  <2>1. ~s.stray /\ \A i \in DOMAIN s.fb : Overlap(s.fb[i].view, e.view) => s.rt[i] = "default"
    BY <1>2, <1>4, <1>6
  <2>2. ASSUME NEW x \in Subs(e.view) PROVE s.layout[x] = "default"
    <3>1. x \in Subresources
      BY DEF GoodEntry, GoodView
    <3>2. CASE \E i \in DOMAIN s.fb : x \in Subs(s.fb[i].view) /\ s.layout[x] = s.rt[i]
      BY <2>1, <3>2 DEF Overlap
    <3> QED
      BY <1>6, <2>1, <3>1, <3>2, Tracks
  <2>3. s.valid
    BY <1>6, <2>1 DEF Tracked
  <2>4. r.valid /\ \A x \in Subresources : r.layout[x] = s.layout[x]
    BY <1>2, <1>4, <2>2, <2>3
  <2>5. \A i \in DOMAIN s.fb : \A x \in Subs(s.fb[i].view) : x \in Subresources
    BY Attachments DEF GoodContext, GoodView
  <2>6. r.fb = s.fb
    BY <1>4 DEF SameBut
  <2> QED
    BY <1>4, <1>6, <2>1, <2>4, <2>5, <2>6 DEF Tracked
<1>7. Tracked(s) => Tracked(r)
  BY <1>6 DEF Tracked
<1> QED
  BY <1>2, <1>4, <1>5, <1>7 DEF r

\* The clear becomes part of the render pass, in one slot.
Folded(s, r, e) ==
  /\ r.content = s.content
  /\ \E i \in DOMAIN s.fb : /\ Subs(s.fb[i].view) = Subs(e.view)
                            /\ DOMAIN r.ops = DOMAIN s.ops \cup {i}
                            /\ r.ops[i] = e
                            /\ \A j \in DOMAIN s.ops \ {i} : r.ops[j] = s.ops[j]

Executed(s, r, e) ==
  /\ r.ops = s.ops
  /\ \A c \in Cells : r.content[c] = IF Hits(e, c) THEN Result(e, c) ELSE s.content[c]

LEMMA PerformedAttached ==
  ASSUME NEW s, GoodContext(s), NEW e, GoodEntry(e), Attachment(s.fb, e.view) # {}
  PROVE  LET r == PerformClear(s, e, Attachment(s.fb, e.view))
         IN  /\ SameBut(s, r)
             /\ GoodContext(r)
             /\ Tracked(s) => Tracked(r)
             /\ Folded(s, r, e) \/ Executed(s, r, e)
<1> DEFINE slots == Attachment(s.fb, e.view)
           i == CHOOSE j \in slots : TRUE
           r == PerformClear(s, e, slots)
           ops == [j \in DOMAIN s.ops \cup {i} |-> IF j = i THEN e ELSE s.ops[j]]
           t == ClearSeparately(s, e, s.rt[i], s.fb[i].layout)
<1>1. i \in slots
  OBVIOUS
<1>2. i \in DOMAIN s.fb /\ Subs(s.fb[i].view) = Subs(e.view)
  BY <1>1 DEF Attachment, Matches
<1>3. /\ s.rt[i] \in Layouts /\ s.fb[i].layout \in Layouts /\ DOMAIN s = ContextFields
      /\ DOMAIN s.rt = DOMAIN s.fb /\ s.fb \in Targets \cup {<<>>}
  BY <1>2, Attachments DEF GoodContext
<1>4. r = IF e.clear \cup e.discard \subseteq WritableAspects(s.fb[i])
          THEN [s EXCEPT !.ops = ops] ELSE [t EXCEPT !.rt[i] = s.fb[i].layout]
  BY <1>3 DEF PerformClear, ContextFields
<1> HIDE DEF i, slots, r
<1>5. CASE e.clear \cup e.discard \subseteq WritableAspects(s.fb[i])
  <2>1. r = [s EXCEPT !.ops = ops]
    BY <1>4, <1>5
  <2>2. DOMAIN ops = DOMAIN s.ops \cup {i} /\ ops[i] = e /\ \A j \in DOMAIN s.ops \ {i} : ops[j] = s.ops[j]
    OBVIOUS
  <2> HIDE DEF ops
  <2>3. /\ SameBut(s, r) /\ r.rt = s.rt /\ r.ops = ops /\ r.stray = s.stray
        /\ r.layout = s.layout /\ r.valid = s.valid /\ r.content = s.content
    BY <1>3, <2>1 DEF SameBut, ContextFields
  <2>4. GoodContext(r)
    BY <2>3, GoodSame DEF GoodContext
  <2>5. Tracked(s) => Tracked(r)
    BY <2>3 DEF SameBut, Tracked
  <2>6. Folded(s, r, e)
    BY <1>2, <2>2, <2>3 DEF Folded
  <2> QED
    BY <2>3, <2>4, <2>5, <2>6 DEF r, slots
<1>6. CASE ~(e.clear \cup e.discard \subseteq WritableAspects(s.fb[i]))
  <2> DEFINE new == [j \in {i} |-> s.fb[i].layout]
             rt == [s.rt EXCEPT ![i] = s.fb[i].layout]
  <2>1. r = [t EXCEPT !.rt[i] = s.fb[i].layout]
    BY <1>4, <1>6
  <2>2. /\ SameBut(s, t) /\ t.rt = s.rt /\ t.ops = s.ops /\ t.stray = s.stray
        /\ t.layout \in [Subresources -> Layouts]
        /\ \A x \in Subresources :
             t.layout[x] = IF x \in Subs(e.view) THEN s.fb[i].layout ELSE s.layout[x]
        /\ s.valid /\ (\A x \in Subs(e.view) : s.layout[x] = s.rt[i]) => t.valid
        /\ t.content \in [Cells -> Values \cup {Undef}]
        /\ \A c \in Cells : t.content[c] = IF Hits(e, c) THEN Result(e, c) ELSE s.content[c]
    BY <1>3, ClearedSeparately
  <2>3. r = [t EXCEPT !.rt = rt]
    BY <2>1, <2>2 DEF SameBut, ContextFields
  <2> HIDE DEF t
  <2>4. DOMAIN rt = DOMAIN s.fb /\ \A j \in DOMAIN s.fb : rt[j] = IF j = i THEN s.fb[i].layout ELSE s.rt[j]
    BY <1>2, <1>3
  <2> HIDE DEF rt
  <2>5. /\ SameBut(s, r) /\ r.rt = rt /\ r.ops = s.ops /\ r.stray = s.stray
        /\ r.layout = t.layout /\ r.valid = t.valid /\ r.content = t.content
    BY <2>2, <2>3 DEF SameBut, ContextFields
  <2>6. \A j \in DOMAIN s.fb : rt[j] \in Layouts
    BY <1>3, <2>4 DEF GoodContext
  <2>7. GoodContext(r)
    BY <2>2, <2>4, <2>5, <2>6, GoodSame
  <2>8. ASSUME Tracked(s), ~s.stray PROVE Tracked(r)
    <3>1. r.valid
      BY <1>2, <2>2, <2>5, <2>8 DEF Tracked
    <3>2. r.fb = s.fb /\ r.stray = s.stray /\ {i} \in SUBSET DOMAIN s.fb
      BY <1>2, <2>5 DEF SameBut
    <3>3. MovedTo(s, r, {i}, new)
      BY <1>2, <2>2, <2>4, <2>5 DEF GoodEntry, GoodView, MovedTo
    <3> HIDE DEF new
    <3> QED
      BY <2>8, <3>1, <3>2, <3>3, MovedTracked
  <2>9. Tracked(s) => Tracked(r)
    BY <2>5, <2>8 DEF Tracked
  <2>10. Executed(s, r, e)
    BY <2>2, <2>5 DEF Executed
  <2> QED
    BY <2>5, <2>7, <2>9, <2>10 DEF r, slots
<1> QED
  BY <1>5, <1>6

-----------------------------------------------------------------------------
(* One deferred clear after the other. *)

LEMMA LeastNumber ==
  ASSUME NEW S \in SUBSET Nat, S # {}
  PROVE  \E n \in S : \A k \in S : n <= k
<1>1. PICK n \in S : \A k \in S : <<k, n>> \notin OpToRel(<, Nat)
  BY NatLessThanWellFounded, WFMin
<1>2. \A k \in S : ~(k < n)
  BY <1>1 DEF OpToRel
<1> QED
  BY <1>2

\* The first m steps of PerformClears.
Steps(s, images, use, m, g) ==
  g = [n \in 0 .. m |-> IF n = 0 THEN [s EXCEPT !.deferred = <<>>]
                        ELSE Execute(g[n - 1], s.deferred[n], images, use)]

LEMMA StepsExist ==
  ASSUME NEW s, NEW images, NEW use, NEW m \in Nat
  PROVE  \E g : Steps(s, images, use, m, g)
<1> DEFINE Bad == {n \in Nat : ~ \E g : Steps(s, images, use, n, g)}
           Value(g, n) == IF n = 0 THEN [s EXCEPT !.deferred = <<>>]
                          ELSE Execute(g[n - 1], s.deferred[n], images, use)
<1>1. 0 \notin Bad
  <2> DEFINE g == [n \in 0 .. 0 |-> [s EXCEPT !.deferred = <<>>]]
  <2>1. g = [n \in 0 .. 0 |-> Value(g, n)]
    OBVIOUS
  <2>2. Steps(s, images, use, 0, g)
    BY <2>1 DEF Steps
  <2> QED
    BY <2>2
<1>2. ASSUME NEW n \in Nat, n \notin Bad PROVE n + 1 \notin Bad
  <2>1. PICK g : Steps(s, images, use, n, g)
    BY <1>2
  <2>2. g = [k \in 0 .. n |-> Value(g, k)]
    BY <2>1 DEF Steps
  <2> DEFINE h == [k \in 0 .. n + 1 |-> Value(g, k)]
  <2>3. \A k \in 0 .. n : h[k] = g[k]
    <3> HIDE DEF Value
    <3> SUFFICES ASSUME NEW k \in 0 .. n PROVE h[k] = g[k]
      OBVIOUS
    <3>1. k \in 0 .. n + 1
      OBVIOUS
    <3>2. h[k] = Value(g, k)
      BY <3>1
    <3>3. g[k] = Value(g, k)
      BY <2>2
    <3> QED
      BY <3>2, <3>3
  <2>4. \A k \in 0 .. n + 1 : Value(h, k) = Value(g, k)
    <3> SUFFICES ASSUME NEW k \in 0 .. n + 1, k # 0 PROVE Value(h, k) = Value(g, k)
      OBVIOUS
    <3>1. k - 1 \in 0 .. n
      OBVIOUS
    <3>2. h[k - 1] = g[k - 1]
      BY <2>3, <3>1
    <3> HIDE DEF h
    <3> QED
      BY <3>2
  <2>5. h = [k \in 0 .. n + 1 |-> Value(h, k)]
    <3> HIDE DEF Value
    <3> QED
      BY <2>4
  <2>6. Steps(s, images, use, n + 1, h)
    <3> HIDE DEF h
    <3> QED
      BY <2>5 DEF Steps
  <2> QED
    BY <2>6
<1>3. Bad = {}
  <2> SUFFICES ASSUME Bad # {} PROVE FALSE
    OBVIOUS
  <2>1. Bad \in SUBSET Nat
    OBVIOUS
  <2>2. PICK n \in Bad : \A k \in Bad : n <= k
    <3> HIDE DEF Bad
    <3> QED
      BY <2>1, LeastNumber
  <2>3. n \in Nat /\ n # 0
    BY <1>1
  <2> DEFINE k == n - 1
  <2>4. k \in Nat /\ k + 1 = n /\ ~(n <= k)
    BY <2>3
  <2> HIDE DEF k, Bad
  <2> QED
    BY <1>2, <2>2, <2>4
<1> QED
  BY <1>3

\* PerformClears goes from entry to entry.
ClearByClear(s, images, use, after) ==
  /\ after[0] = [s EXCEPT !.deferred = <<>>]
  /\ \A n \in 1 .. Len(s.deferred) :
       after[n] = Execute(after[n - 1], s.deferred[n], images, use)
  /\ PerformClears(s, images, use) = after[Len(s.deferred)]

LEMMA PerformedClearByClear ==
  ASSUME NEW s, NEW images, NEW use, Len(s.deferred) \in Nat
  PROVE  \E after : ClearByClear(s, images, use, after)
<1> DEFINE m == Len(s.deferred)
           g == CHOOSE g : Steps(s, images, use, m, g)
           Value(n) == IF n = 0 THEN [s EXCEPT !.deferred = <<>>]
                       ELSE Execute(g[n - 1], s.deferred[n], images, use)
<1>1. Steps(s, images, use, m, g)
  BY StepsExist
<1>2. PerformClears(s, images, use) = g[m]
  BY DEF PerformClears, Steps
<1> HIDE DEF g
<1>3. g = [n \in 0 .. m |-> Value(n)]
  BY <1>1 DEF Steps
<1>4. \A n \in 0 .. m : g[n] = Value(n)
  <2> HIDE DEF Value
  <2> QED
    BY <1>3
<1>5. g[0] = [s EXCEPT !.deferred = <<>>]
  BY <1>4
<1>6. \A n \in 1 .. m : g[n] = Execute(g[n - 1], s.deferred[n], images, use)
  BY <1>4
<1> QED
  BY <1>2, <1>5, <1>6 DEF ClearByClear

\* What the first n deferred clears of s have come to in a context t: those of other images wait,
\* and the rest are executed or part of the render pass, each in its slot.
Waiting(d, images, n, t) ==
  \A e : e \in Deferred(t) <=> \E k \in 1 .. n : e = d[k] /\ e.view.image \notin images

Slots(d, fb, n, t) ==
  \A i \in DOMAIN t.ops : /\ i \in DOMAIN fb /\ Subs(fb[i].view) = Subs(t.ops[i].view)
                          /\ \E k \in 1 .. n : t.ops[i] = d[k]

Contents(d, images, content, n, t) ==
  \A c \in Cells :
    /\ \A k \in 1 .. n : d[k].view.image \in images /\ Hits(d[k], c) =>
         t.content[c] = Result(d[k], c) \/ \E i \in DOMAIN t.ops : t.ops[i] = d[k]
    /\ (\A k \in 1 .. n : d[k].view.image \in images => ~Hits(d[k], c)) =>
         t.content[c] = content[c]

Partly(s, images, use, n, t) ==
  /\ GoodContext(t)
  /\ t.pass = s.pass /\ t.targets = s.targets /\ t.dirty = s.dirty /\ t.fb = s.fb
  /\ Tracked(s) => Tracked(t)
  /\ ~use => t.ops = <<>> /\ t.rt = s.rt
  /\ Waiting(s.deferred, images, n, t)
  /\ Slots(s.deferred, s.fb, n, t)
  /\ Contents(s.deferred, images, s.content, n, t)

LEMMA ClearsOf ==
  ASSUME NEW d, GoodClears(d)
  PROVE  /\ Len(d) \in Nat /\ DOMAIN d = 1 .. Len(d)
         /\ \A k \in 1 .. Len(d) : GoodEntry(d[k])
         /\ \A j, k \in 1 .. Len(d) : j # k => ~Overlap(d[j].view, d[k].view) /\ d[j] # d[k]
<1> DEFINE D == {d[k] : k \in DOMAIN d}
<1>1. d \in Seq(D)
  BY DEF GoodClears
<1> HIDE DEF D
<1>2. Len(d) \in Nat /\ DOMAIN d = 1 .. Len(d)
  BY <1>1
<1>3. \A k \in 1 .. Len(d) : GoodEntry(d[k])
  BY <1>2 DEF GoodClears
<1>4. \A j, k \in 1 .. Len(d) : j # k => ~Overlap(d[j].view, d[k].view)
  BY <1>2 DEF GoodClears
<1>5. \A j \in 1 .. Len(d) : Overlap(d[j].view, d[j].view)
  BY <1>3 DEF GoodEntry, GoodView, Overlap
<1>6. \A j, k \in 1 .. Len(d) : j # k => d[j] # d[k]
  BY <1>4, <1>5
<1> QED
  BY <1>2, <1>3, <1>4, <1>6

LEMMA HitsOverlap ==
  ASSUME NEW c \in Cells, NEW e, NEW f, Hits(e, c), Hits(f, c)
  PROVE  Overlap(e.view, f.view)
BY HitPlace DEF Overlap

LEMMA ContentsExecuted ==
  ASSUME NEW d, GoodClears(d), NEW images, NEW content, NEW n \in Nat, n + 1 \in 1 .. Len(d),
         NEW t, NEW r, Contents(d, images, content, n, t), Executed(t, r, d[n + 1]),
         d[n + 1].view.image \in images
  PROVE  Contents(d, images, content, n + 1, r)
<1> DEFINE e == d[n + 1]
<1>1. \A c \in Cells : r.content[c] = IF Hits(e, c) THEN Result(e, c) ELSE t.content[c]
  BY DEF Executed
<1>2. r.ops = t.ops
  BY DEF Executed
<1>3. \A k \in 1 .. n : k \in 1 .. Len(d) /\ k # n + 1 /\ ~Overlap(d[k].view, e.view)
  BY ClearsOf
<1>4. \A k \in 1 .. n + 1 : k \in 1 .. n \/ k = n + 1
  OBVIOUS
<1>5. ASSUME NEW c \in Cells, NEW k \in 1 .. n + 1, d[k].view.image \in images, Hits(d[k], c)
      PROVE  r.content[c] = Result(d[k], c) \/ \E i \in DOMAIN r.ops : r.ops[i] = d[k]
  <2>1. CASE k = n + 1
    BY <1>1, <1>5, <2>1
  <2>2. CASE k \in 1 .. n
    <3>1. ~Hits(e, c)
      BY <1>3, <1>5, <2>2, HitsOverlap
    <3>2. t.content[c] = Result(d[k], c) \/ \E i \in DOMAIN t.ops : t.ops[i] = d[k]
      BY <1>5, <2>2 DEF Contents
    <3> QED
      BY <1>1, <1>2, <3>1, <3>2
  <2> QED
    BY <1>4, <2>1, <2>2
<1>6. ASSUME NEW c \in Cells, \A k \in 1 .. n + 1 : d[k].view.image \in images => ~Hits(d[k], c)
      PROVE  r.content[c] = content[c]
  <2>1. ~Hits(e, c) /\ \A k \in 1 .. n : d[k].view.image \in images => ~Hits(d[k], c)
    BY <1>6
  <2> QED
    BY <1>1, <2>1 DEF Contents
<1> QED
  BY <1>5, <1>6 DEF Contents

LEMMA ContentsFolded ==
  ASSUME NEW d, GoodClears(d), NEW images, NEW content, NEW n \in Nat, n + 1 \in 1 .. Len(d),
         NEW t, NEW r, Contents(d, images, content, n, t), Slots(d, t.fb, n, t),
         Folded(t, r, d[n + 1]), d[n + 1].view.image \in images
  PROVE  Contents(d, images, content, n + 1, r) /\ Slots(d, t.fb, n + 1, r)
<1> DEFINE e == d[n + 1]
<1>1. r.content = t.content
  BY DEF Folded
<1>2. PICK i \in DOMAIN t.fb : /\ Subs(t.fb[i].view) = Subs(e.view)
                               /\ DOMAIN r.ops = DOMAIN t.ops \cup {i}
                               /\ r.ops[i] = e
                               /\ \A j \in DOMAIN t.ops \ {i} : r.ops[j] = t.ops[j]
  BY DEF Folded
<1>3. \A k \in 1 .. n : k \in 1 .. Len(d) /\ k # n + 1 /\ ~Overlap(d[k].view, e.view)
  BY ClearsOf
<1>4. \A k \in 1 .. n + 1 : k \in 1 .. n \/ k = n + 1
  OBVIOUS
<1>5. n + 1 \in 1 .. n + 1 /\ \A k \in 1 .. n : k \in 1 .. n + 1
  OBVIOUS
<1>6. i \notin DOMAIN t.ops
  <2> SUFFICES ASSUME i \in DOMAIN t.ops PROVE FALSE
    OBVIOUS
  <2>1. PICK k \in 1 .. n : t.ops[i] = d[k] /\ Subs(t.fb[i].view) = Subs(t.ops[i].view)
    BY DEF Slots
  <2>2. Subs(d[k].view) = Subs(e.view) /\ Subs(e.view) # {}
    BY <1>2, <2>1, ClearsOf DEF GoodEntry, GoodView
  <2> QED
    BY <1>3, <2>2 DEF Overlap
<1>7. \A j \in DOMAIN t.ops : j \in DOMAIN r.ops /\ r.ops[j] = t.ops[j]
  BY <1>2, <1>6
<1>8. ASSUME NEW c \in Cells, NEW k \in 1 .. n + 1, d[k].view.image \in images, Hits(d[k], c)
      PROVE  r.content[c] = Result(d[k], c) \/ \E j \in DOMAIN r.ops : r.ops[j] = d[k]
  <2>1. CASE k = n + 1
    BY <1>2, <2>1
  <2>2. CASE k \in 1 .. n
    <3>1. t.content[c] = Result(d[k], c) \/ \E j \in DOMAIN t.ops : t.ops[j] = d[k]
      BY <1>8, <2>2 DEF Contents
    <3> QED
      BY <1>1, <1>7, <3>1
  <2> QED
    BY <1>4, <2>1, <2>2
<1>9. ASSUME NEW c \in Cells, \A k \in 1 .. n + 1 : d[k].view.image \in images => ~Hits(d[k], c)
      PROVE  r.content[c] = content[c]
  <2>1. \A k \in 1 .. n : d[k].view.image \in images => ~Hits(d[k], c)
    BY <1>9
  <2> QED
    BY <1>1, <2>1 DEF Contents
<1>10. ASSUME NEW j \in DOMAIN r.ops
       PROVE  /\ j \in DOMAIN t.fb /\ Subs(t.fb[j].view) = Subs(r.ops[j].view)
              /\ \E k \in 1 .. n + 1 : r.ops[j] = d[k]
  <2>1. CASE j = i
    BY <1>2, <1>5, <2>1
  <2>2. CASE j \in DOMAIN t.ops
    BY <1>5, <1>7, <2>2 DEF Slots
  <2> QED
    BY <1>2, <2>1, <2>2
<1>11. Slots(d, t.fb, n + 1, r)
  BY <1>10 DEF Slots
<1> QED
  BY <1>8, <1>9, <1>11 DEF Contents

LEMMA PartlyFirst ==
  ASSUME NEW s, GoodContext(s), s.ops = <<>>, NEW images, NEW use
  PROVE  Partly(s, images, use, 0, [s EXCEPT !.deferred = <<>>])
<1> DEFINE t == [s EXCEPT !.deferred = <<>>]
<1>1. /\ DOMAIN t = ContextFields /\ t.deferred = <<>>
      /\ t.pass = s.pass /\ t.targets = s.targets /\ t.dirty = s.dirty /\ t.fb = s.fb /\ t.rt = s.rt
      /\ t.ops = <<>> /\ t.content = s.content /\ t.layout = s.layout /\ t.valid = s.valid
      /\ t.stray = s.stray
  BY DEF GoodContext, ContextFields
<1> HIDE DEF t
<1>2. GoodContext(t)
  BY <1>1, NoClears DEF GoodContext
<1>3. Tracked(s) => Tracked(t)
  BY <1>1 DEF Tracked
<1>4. Deferred(t) = {}
  BY <1>1, NoClears DEF Deferred, EntriesOf
<1>5. DOMAIN t.ops = {} /\ 1 .. 0 = {}
  BY <1>1
<1>6. Waiting(s.deferred, images, 0, t)
  BY <1>4, <1>5 DEF Waiting
<1>7. Slots(s.deferred, s.fb, 0, t) /\ Contents(s.deferred, images, s.content, 0, t)
  BY <1>1, <1>5 DEF Slots, Contents
<1> QED
  BY <1>1, <1>2, <1>3, <1>6, <1>7 DEF Partly, t

LEMMA PartlyStep ==
  ASSUME NEW s, GoodContext(s), NEW images, NEW use \in BOOLEAN,
         NEW n \in Nat, n + 1 \in 1 .. Len(s.deferred), NEW t, Partly(s, images, use, n, t)
  PROVE  Partly(s, images, use, n + 1, Execute(t, s.deferred[n + 1], images, use))
<1> DEFINE d == s.deferred
           e == d[n + 1]
           slots == IF use THEN Attachment(t.fb, e.view) ELSE {}
           r == Execute(t, e, images, use)
<1>1. GoodClears(d) /\ GoodEntry(e)
  BY ClearsOf DEF GoodContext
<1>2. \A k \in 1 .. n + 1 : k \in 1 .. n \/ k = n + 1
  OBVIOUS
<1>3. n + 1 \in 1 .. n + 1 /\ \A k \in 1 .. n : k \in 1 .. n + 1
  OBVIOUS
<1>4. /\ GoodContext(t) /\ t.fb = s.fb /\ (Tracked(s) => Tracked(t))
      /\ Waiting(d, images, n, t) /\ Slots(d, t.fb, n, t) /\ Contents(d, images, s.content, n, t)
  BY DEF Partly
<1> HIDE DEF d, e, slots, r
<1>5. CASE e.view.image \notin images
  <2>1. r = [t EXCEPT !.deferred = Append(t.deferred, e)]
    BY <1>5 DEF Execute, r
  <2>2. \A k \in DOMAIN t.deferred : ~Overlap(t.deferred[k].view, e.view)
    <3> SUFFICES ASSUME NEW k \in DOMAIN t.deferred PROVE ~Overlap(t.deferred[k].view, e.view)
      OBVIOUS
    <3>1. t.deferred[k] \in Deferred(t)
      BY DEF Deferred
    <3>2. PICK j \in 1 .. n : t.deferred[k] = d[j]
      BY <1>4, <3>1 DEF Waiting
    <3>3. j \in 1 .. Len(d) /\ j # n + 1
      BY <1>1, <3>2, ClearsOf DEF d
    <3> QED
      BY <1>1, <3>2, <3>3, ClearsOf DEF d, e
  <2>3. GoodClears(Append(t.deferred, e))
    BY <1>1, <1>4, <2>2, Appended DEF GoodContext
  <2>4. EntriesOf(Append(t.deferred, e)) = EntriesOf(t.deferred) \cup {e}
    BY <1>1, <1>4, <2>2, Appended DEF GoodContext
  <2>5. /\ DOMAIN r = ContextFields /\ r.deferred = Append(t.deferred, e)
        /\ r.pass = t.pass /\ r.targets = t.targets /\ r.dirty = t.dirty /\ r.fb = t.fb /\ r.rt = t.rt
        /\ r.ops = t.ops /\ r.content = t.content /\ r.layout = t.layout /\ r.valid = t.valid
        /\ r.stray = t.stray
    BY <1>4, <2>1 DEF GoodContext, ContextFields
  <2>6. GoodContext(r)
    BY <1>4, <2>3, <2>5 DEF GoodContext
  <2>7. Tracked(s) => Tracked(r)
    BY <1>4, <2>5 DEF Tracked
  <2>8. Deferred(r) = Deferred(t) \cup {e}
    BY <2>4, <2>5 DEF Deferred, EntriesOf
  <2>9. Waiting(d, images, n + 1, r)
    BY <1>2, <1>3, <1>4, <1>5, <2>8 DEF Waiting, e
  <2>10. Slots(d, s.fb, n + 1, r)
    BY <1>3, <1>4, <2>5 DEF Slots
  <2>11. Contents(d, images, s.content, n + 1, r)
    BY <1>2, <1>3, <1>4, <1>5, <2>5 DEF Contents, e
  <2> QED
    BY <2>5, <2>6, <2>7, <2>9, <2>10, <2>11 DEF Partly, d, e, r
<1>6. CASE e.view.image \in images
  <2>1. r = PerformClear(t, e, slots)
    BY <1>6 DEF Execute, r, slots
  <2>2. CASE slots = {}
    <3>1. /\ SameBut(t, r) /\ r.rt = t.rt /\ r.ops = t.ops /\ GoodContext(r)
          /\ Tracked(t) => Tracked(r)
          /\ \A c \in Cells : r.content[c] = IF Hits(e, c) THEN Result(e, c) ELSE t.content[c]
      BY <1>1, <1>4, <2>1, <2>2, PerformedAlone
    <3>2. Executed(t, r, e)
      BY <3>1 DEF Executed
    <3>3. Contents(d, images, s.content, n + 1, r)
      BY <1>1, <1>4, <1>6, <3>2, ContentsExecuted DEF d, e
    <3>4. Slots(d, s.fb, n + 1, r)
      BY <1>3, <1>4, <3>1 DEF Slots
    <3>5. Waiting(d, images, n + 1, r)
      BY <1>2, <1>3, <1>4, <1>6, <3>1 DEF Waiting, Deferred, SameBut, e
    <3> QED
      BY <1>4, <3>1, <3>3, <3>4, <3>5 DEF Partly, SameBut, d, e, r
  <2>3. CASE slots # {}
    <3>1. use /\ slots = Attachment(t.fb, e.view)
      BY <2>3 DEF slots
    <3>2. /\ SameBut(t, r) /\ GoodContext(r)
          /\ Tracked(t) => Tracked(r)
          /\ Folded(t, r, e) \/ Executed(t, r, e)
      BY <1>1, <1>4, <2>1, <2>3, <3>1, PerformedAttached
    <3>3. Contents(d, images, s.content, n + 1, r) /\ Slots(d, s.fb, n + 1, r)
      <4>1. CASE Folded(t, r, e)
        BY <1>1, <1>4, <1>6, <4>1, ContentsFolded DEF d, e
      <4>2. CASE Executed(t, r, e)
        <5>1. Contents(d, images, s.content, n + 1, r)
          BY <1>1, <1>4, <1>6, <4>2, ContentsExecuted DEF d, e
        <5>2. Slots(d, s.fb, n + 1, r)
          BY <1>3, <1>4, <4>2 DEF Slots, Executed
        <5> QED
          BY <5>1, <5>2
      <4> QED
        BY <3>2, <4>1, <4>2
    <3>4. Waiting(d, images, n + 1, r)
      BY <1>2, <1>3, <1>4, <1>6, <3>2 DEF Waiting, Deferred, SameBut, e
    <3> QED
      BY <1>4, <3>1, <3>2, <3>3, <3>4 DEF Partly, SameBut, d, e, r
  <2> QED
    BY <2>2, <2>3
<1> QED
  BY <1>5, <1>6

LEMMA AllPerformed ==
  ASSUME NEW s, GoodContext(s), s.ops = <<>>, NEW images, NEW use \in BOOLEAN
  PROVE  Partly(s, images, use, Len(s.deferred), PerformClears(s, images, use))
<1> DEFINE m == Len(s.deferred)
<1>1. m \in Nat
  BY ClearsOf DEF GoodContext
<1>2. PICK after : ClearByClear(s, images, use, after)
  BY <1>1, PerformedClearByClear
<1> DEFINE Bad == {n \in 0 .. m : ~Partly(s, images, use, n, after[n])}
<1>3. Bad = {}
  <2> SUFFICES ASSUME Bad # {} PROVE FALSE
    OBVIOUS
  <2>1. Bad \in SUBSET Nat
    BY <1>1
  <2>2. PICK n \in Bad : \A k \in Bad : n <= k
    <3> HIDE DEF Bad
    <3> QED
      BY <2>1, LeastNumber
  <2>3. n # 0
    BY <1>2, <2>2, PartlyFirst DEF ClearByClear
  <2> DEFINE k == n - 1
  <2>4. k \in Nat /\ k \in 0 .. m /\ k + 1 = n /\ ~(n <= k) /\ n \in 1 .. m
    BY <1>1, <2>2, <2>3
  <2>5. after[n] = Execute(after[k], s.deferred[n], images, use)
    BY <1>2, <2>4 DEF ClearByClear
  <2> HIDE DEF k
  <2>6. k \notin Bad
    BY <2>2, <2>4
  <2>7. Partly(s, images, use, k, after[k])
    BY <2>4, <2>6
  <2>8. Partly(s, images, use, k + 1, Execute(after[k], s.deferred[k + 1], images, use))
    BY <2>4, <2>7, PartlyStep
  <2>9. Partly(s, images, use, n, after[n])
    BY <2>4, <2>5, <2>8
  <2> QED
    BY <2>2, <2>9
<1>4. m \in 0 .. m
  BY <1>1
<1>5. Partly(s, images, use, m, after[m])
  BY <1>3, <1>4
<1> QED
  BY <1>2, <1>5 DEF ClearByClear

LEMMA DeferredOf ==
  ASSUME NEW s, GoodContext(s)
  PROVE  /\ Len(s.deferred) \in Nat
         /\ \A e : e \in Deferred(s) <=> \E k \in 1 .. Len(s.deferred) : e = s.deferred[k]
         /\ \A e \in Deferred(s) : GoodEntry(e)
         /\ NonOverlapping(Deferred(s))
<1>1. GoodClears(s.deferred)
  BY DEF GoodContext
<1>2. Len(s.deferred) \in Nat /\ DOMAIN s.deferred = 1 .. Len(s.deferred)
  BY <1>1, ClearsOf
<1>3. Deferred(s) = EntriesOf(s.deferred)
  BY DEF Deferred, EntriesOf
<1>4. NonOverlapping(Deferred(s))
  BY <1>1, <1>3, ClearsDoNotOverlap
<1>5. \A e \in Deferred(s) : GoodEntry(e)
  BY <1>1 DEF Deferred, GoodClears
<1>6. \A e : e \in Deferred(s) <=> \E k \in 1 .. Len(s.deferred) : e = s.deferred[k]
  BY <1>2 DEF Deferred
<1> QED
  BY <1>2, <1>4, <1>5, <1>6

\* What a cell holds once the deferred clears are executed.
LEMMA SeenAt ==
  ASSUME NEW s, GoodContext(s), NEW c \in Cells
  PROVE  /\ \A e \in Deferred(s) : Hits(e, c) => SeenIn(s)[c] = Result(e, c)
         /\ (\A e \in Deferred(s) : ~Hits(e, c)) => SeenIn(s)[c] = s.content[c]
BY DeferredOf, ClearedAt DEF SeenIn

LEMMA NothingDeferred ==
  ASSUME NEW s, GoodContext(s)
  PROVE  /\ s.deferred = <<>> <=> Deferred(s) = {}
         /\ s.deferred = <<>> => \A c \in Cells : SeenIn(s)[c] = s.content[c]
<1>1. ASSUME s.deferred = <<>> PROVE Deferred(s) = {}
  BY <1>1, NoClears DEF Deferred, EntriesOf
<1>2. ASSUME Deferred(s) = {} PROVE s.deferred = <<>>
  <2>1. s.deferred \in Seq({})
    BY <1>2 DEF GoodContext, GoodClears, Deferred
  <2> QED
    BY <2>1
<1>3. ASSUME s.deferred = <<>>, NEW c \in Cells PROVE SeenIn(s)[c] = s.content[c]
  BY <1>1, <1>3, SeenAt
<1> QED
  BY <1>1, <1>2, <1>3

SameSeen(s, r) == \A c \in Cells : SeenIn(r)[c] = SeenIn(s)[c]

LEMMA SomeCleared ==
  ASSUME NEW s, GoodContext(s), s.ops = <<>>, NEW images
  PROVE  LET r == PerformClears(s, images, FALSE)
         IN  /\ GoodContext(r)
             /\ r.pass = s.pass /\ r.targets = s.targets /\ r.dirty = s.dirty /\ r.fb = s.fb
             /\ r.rt = s.rt /\ r.ops = <<>>
             /\ Tracked(s) => Tracked(r)
             /\ \A e : e \in Deferred(r) <=> e \in Deferred(s) /\ e.view.image \notin images
             /\ SameSeen(s, r)
<1> DEFINE r == PerformClears(s, images, FALSE)
           d == s.deferred
           m == Len(d)
<1>1. Partly(s, images, FALSE, m, r)
  BY AllPerformed
<1> HIDE DEF r
<1>2. /\ GoodContext(r)
      /\ r.pass = s.pass /\ r.targets = s.targets /\ r.dirty = s.dirty /\ r.fb = s.fb
      /\ r.rt = s.rt /\ r.ops = <<>>
      /\ Tracked(s) => Tracked(r)
      /\ Waiting(d, images, m, r) /\ Contents(d, images, s.content, m, r)
  BY <1>1 DEF Partly
<1>3. \A e : e \in Deferred(s) <=> \E k \in 1 .. m : e = d[k]
  BY DeferredOf
<1>4. \A e : e \in Deferred(r) <=> e \in Deferred(s) /\ e.view.image \notin images
  BY <1>2, <1>3 DEF Waiting
<1>5. ASSUME NEW c \in Cells PROVE SeenIn(r)[c] = SeenIn(s)[c]
  <2>1. CASE \E e \in Deferred(s) : Hits(e, c)
    <3>1. PICK e \in Deferred(s) : Hits(e, c)
      BY <2>1
    <3>2. SeenIn(s)[c] = Result(e, c)
      BY <3>1, SeenAt
    <3>3. CASE e.view.image \notin images
      <4>1. e \in Deferred(r)
        BY <1>4, <3>3
      <4> QED
        BY <1>2, <3>1, <3>2, <4>1, SeenAt
    <3>4. CASE e.view.image \in images
      <4>1. PICK k \in 1 .. m : e = d[k]
        BY <1>3
      <4>2. r.content[c] = Result(e, c)
        BY <1>2, <3>1, <3>4, <4>1 DEF Contents
      <4>3. \A f \in Deferred(r) : ~Hits(f, c)
        <5> SUFFICES ASSUME NEW f \in Deferred(r), Hits(f, c) PROVE FALSE
          OBVIOUS
        <5>1. f \in Deferred(s) /\ f # e
          BY <1>4, <3>4
        <5>2. ~Overlap(e.view, f.view)
          BY <5>1, DeferredOf DEF NonOverlapping
        <5> QED
          BY <3>1, <5>2, HitsOverlap
      <4> QED
        BY <1>2, <3>2, <4>2, <4>3, SeenAt
    <3> QED
      BY <3>3, <3>4
  <2>2. CASE \A e \in Deferred(s) : ~Hits(e, c)
    <3>1. r.content[c] = s.content[c]
      BY <1>2, <1>3, <2>2 DEF Contents
    <3>2. \A e \in Deferred(r) : ~Hits(e, c)
      BY <1>4, <2>2
    <3> QED
      BY <1>2, <2>2, <3>1, <3>2, SeenAt
  <2> QED
    BY <2>1, <2>2
<1> QED
  BY <1>2, <1>4, <1>5 DEF SameSeen, r

AllImages == {v.image : v \in Views}

LEMMA ImageOfEntry ==
  ASSUME NEW e, GoodEntry(e)
  PROVE  e.view.image \in AllImages
<1>1. PICK x \in Subs(e.view) : x \in Subresources
  BY DEF GoodEntry, GoodView
<1>2. PICK v \in Views : x \in {v.image} \X v.subs
  BY <1>1 DEF Subresources
<1>3. v.image = e.view.image
  BY <1>1, <1>2 DEF Subs
<1> QED
  BY <1>3 DEF AllImages

LEMMA AllCleared ==
  ASSUME NEW s, GoodContext(s), s.ops = <<>>
  PROVE  LET r == FlushClears(s, FALSE)
         IN  /\ GoodContext(r)
             /\ r.pass = s.pass /\ r.targets = s.targets /\ r.dirty = s.dirty /\ r.fb = s.fb
             /\ r.rt = s.rt /\ r.ops = <<>>
             /\ Tracked(s) => Tracked(r)
             /\ r.deferred = <<>>
             /\ SameSeen(s, r)
<1> DEFINE r == PerformClears(s, AllImages, FALSE)
<1>1. /\ GoodContext(r)
      /\ r.pass = s.pass /\ r.targets = s.targets /\ r.dirty = s.dirty /\ r.fb = s.fb
      /\ r.rt = s.rt /\ r.ops = <<>>
      /\ Tracked(s) => Tracked(r)
      /\ \A e : e \in Deferred(r) <=> e \in Deferred(s) /\ e.view.image \notin AllImages
      /\ SameSeen(s, r)
  BY SomeCleared
<1>2. FlushClears(s, FALSE) = r
  BY DEF FlushClears, AllImages
<1> HIDE DEF r
<1>3. Deferred(r) = {}
  BY <1>1, DeferredOf, ImageOfEntry
<1>4. r.deferred = <<>>
  BY <1>1, <1>3, NothingDeferred
<1> QED
  BY <1>1, <1>2, <1>4

-----------------------------------------------------------------------------
(* Operations of the render pass. Each keeps the context as it is between two calls, and what   *)
(* the images hold in the end.                                                              *)

\* Clears that became part of the render pass, in their slots.
GoodOps(t) ==
  /\ \A i \in DOMAIN t.ops : /\ i \in DOMAIN t.fb /\ Subs(t.fb[i].view) = Subs(t.ops[i].view)
                             /\ GoodEntry(t.ops[i])
  /\ NonOverlapping({t.ops[i] : i \in DOMAIN t.ops})

LEMMA Begun ==
  ASSUME NEW t, GoodContext(t), GoodOps(t)
  PROVE  LET r == Begin(t)
         IN  /\ GoodContext(r)
             /\ r.pass = "bound" /\ r.targets = t.targets /\ r.dirty = t.dirty /\ r.fb = t.fb
             /\ r.ops = <<>> /\ r.deferred = t.deferred
             /\ Tracked(t) => Tracked(r)
             /\ \A c \in Cells :
                  /\ \A i \in DOMAIN t.ops : Hits(t.ops[i], c) => r.content[c] = Result(t.ops[i], c)
                  /\ (\A i \in DOMAIN t.ops : ~Hits(t.ops[i], c)) => r.content[c] = t.content[c]
<1> DEFINE Load(i) == IF i \in DOMAIN t.ops /\ Covers(t.ops[i]) THEN "undefined" ELSE t.rt[i]
           old == [i \in DOMAIN t.fb |-> Load(i)]
           new == [i \in DOMAIN t.fb |-> t.fb[i].layout]
           moves == {Move(t.fb[i].view, Load(i), t.fb[i].layout) : i \in DOMAIN t.fb}
           u == Barriers(t, moves)
           ops == {t.ops[i] : i \in DOMAIN t.ops}
           r == Begin(t)
<1>1. /\ DOMAIN t = ContextFields /\ t.fb \in Targets \cup {<<>>} /\ DOMAIN t.rt = DOMAIN t.fb
      /\ \A i \in DOMAIN t.fb : t.rt[i] \in Layouts /\ t.fb[i].layout \in Layouts
      /\ t.content \in [Cells -> Values \cup {Undef}]
  BY Attachments DEF GoodContext
<1>2. SameBut(t, u) /\ u.rt = t.rt /\ u.ops = t.ops /\ u.stray = t.stray
  BY <1>1, BarriersFields
<1>3. r = [u EXCEPT !.pass = "bound", !.content = Cleared(@, ops), !.rt = new, !.ops = <<>>]
  BY DEF Begin
<1>4. \A i \in DOMAIN t.fb : old[i] = Load(i) /\ new[i] = t.fb[i].layout
  OBVIOUS
<1>5. AreMoves(moves, t.fb, DOMAIN t.fb, old, new)
  <2>1. \A i \in DOMAIN t.fb : Move(t.fb[i].view, old[i], new[i]) \in moves
    OBVIOUS
  <2>2. \A m \in moves : \E i \in DOMAIN t.fb : m = Move(t.fb[i].view, old[i], new[i])
    OBVIOUS
  <2> HIDE DEF moves, old, new
  <2> QED
    BY <1>1, <1>4, <2>1, <2>2 DEF AreMoves
<1>6. u.content = [c \in Cells |-> IF \E m \in moves : /\ Place(c) \in Subs(m.view)
                                                       /\ m.old = "undefined"
                                   THEN Undef ELSE t.content[c]]
  <2> HIDE DEF moves
  <2>1. u.content = [c \in Cells |->
                       IF \E m \in {m \in moves : Place(c) \in Subs(m.view)} : m.old = "undefined"
                       THEN Undef ELSE t.content[c]]
    BY <1>1 DEF Barriers, ContextFields, Place
  <2> QED
    BY <2>1
<1>7. \A m \in moves : \E i \in DOMAIN t.fb : m.view = t.fb[i].view /\ m.old = Load(i)
  <2> SUFFICES ASSUME NEW m \in moves
               PROVE  \E i \in DOMAIN t.fb : m.view = t.fb[i].view /\ m.old = Load(i)
    OBVIOUS
  <2>1. PICK i \in DOMAIN t.fb : m = Move(t.fb[i].view, Load(i), t.fb[i].layout)
    OBVIOUS
  <2> HIDE DEF Load
  <2>2. m.view = t.fb[i].view /\ m.old = Load(i)
    BY <2>1 DEF Move
  <2> QED
    BY <2>2
<1> HIDE DEF moves, old, new
<1>8. /\ u.layout \in [Subresources -> Layouts]
      /\ \A i \in DOMAIN t.fb : \A x \in Subs(t.fb[i].view) : u.layout[x] = new[i]
      /\ \A x \in Subresources : (\A i \in DOMAIN t.fb : x \notin Subs(t.fb[i].view)) =>
           u.layout[x] = t.layout[x]
      /\ u.valid <=> t.valid /\ \A i \in DOMAIN t.fb : \A x \in Subs(t.fb[i].view) :
                                   old[i] \in {"undefined", t.layout[x]}
  <2> DEFINE slots == DOMAIN t.fb
  <2>1. slots \in SUBSET DOMAIN t.fb /\ AreMoves(moves, t.fb, slots, old, new)
    BY <1>5
  <2> HIDE DEF slots
  <2>2. /\ u.layout \in [Subresources -> Layouts]
        /\ \A i \in slots : \A x \in Subs(t.fb[i].view) : u.layout[x] = new[i]
        /\ \A x \in Subresources : (\A i \in slots : x \notin Subs(t.fb[i].view)) =>
             u.layout[x] = t.layout[x]
        /\ u.valid <=> t.valid /\ \A i \in slots : \A x \in Subs(t.fb[i].view) :
                                     old[i] \in {"undefined", t.layout[x]}
    BY <2>1, AttachmentsMoved
  <2> QED
    BY <2>2 DEF slots
<1>9. u.content \in [Cells -> Values \cup {Undef}]
  BY <1>1, <1>6
<1> HIDE DEF u, r, Load, ops
<1>10. /\ DOMAIN r = ContextFields /\ r.pass = "bound" /\ r.targets = t.targets
       /\ r.dirty = t.dirty /\ r.fb = t.fb /\ r.deferred = t.deferred
       /\ r.rt = new /\ r.ops = <<>> /\ r.stray = t.stray
       /\ r.layout = u.layout /\ r.valid = u.valid /\ r.content = Cleared(u.content, ops)
  BY <1>2, <1>3 DEF SameBut, ContextFields
<1>11. (\A e \in ops : GoodEntry(e)) /\ NonOverlapping(ops)
  BY DEF GoodOps, ops
<1>12. r.content \in [Cells -> Values \cup {Undef}]
  BY <1>9, <1>10, <1>11, ClearedType
<1>13. DOMAIN new = DOMAIN t.fb
  BY DEF new
<1>14. GoodContext(r)
  BY <1>1, <1>4, <1>8, <1>10, <1>12, <1>13 DEF GoodContext
<1>15. ASSUME Tracked(t), ~t.stray PROVE Tracked(r)
  <2>1. r.valid
    BY <1>4, <1>8, <1>10, <1>15 DEF Tracked, Load
  <2>2. MovedTo(t, r, DOMAIN t.fb, new)
    BY <1>8, <1>10 DEF MovedTo
  <2> QED
    BY <1>10, <1>15, <2>1, <2>2, MovedTracked
<1>16. Tracked(t) => Tracked(r)
  BY <1>10, <1>15 DEF Tracked
<1>17. ASSUME NEW c \in Cells, NEW i \in DOMAIN t.ops, Hits(t.ops[i], c)
       PROVE  r.content[c] = Result(t.ops[i], c)
  <2>1. t.ops[i] \in ops
    BY DEF ops
  <2> QED
    BY <1>10, <1>11, <1>17, <2>1, ClearedAt
<1>18. ASSUME NEW c \in Cells, \A i \in DOMAIN t.ops : ~Hits(t.ops[i], c)
       PROVE  r.content[c] = t.content[c]
  <2>1. \A e \in ops : ~Hits(e, c)
    BY <1>18 DEF ops
  <2>2. r.content[c] = u.content[c]
    BY <1>10, <1>11, <2>1, ClearedAt
  <2>3. ASSUME NEW m \in moves, Place(c) \in Subs(m.view), m.old = "undefined" PROVE FALSE
    <3>1. PICK i \in DOMAIN t.fb : m.view = t.fb[i].view /\ m.old = Load(i)
      BY <1>7
    <3>2. i \in DOMAIN t.ops /\ Covers(t.ops[i])
      BY <1>1, <2>3, <3>1 DEF Load, Layouts
    <3>3. Hits(t.ops[i], c)
      BY <2>3, <3>1, <3>2, CoveredCells DEF GoodOps
    <3> QED
      BY <1>18, <3>2, <3>3
  <2> QED
    BY <1>6, <2>2, <2>3
<1> QED
  BY <1>10, <1>14, <1>16, <1>17, <1>18 DEF r

LEMMA Suspended ==
  ASSUME NEW s, Idle(s)
  PROVE  LET r == SuspendRenderPass(s)
         IN  /\ Idle(r) /\ SameSeen(s, r) /\ r.pass # "bound"
             /\ r.targets = s.targets /\ r.dirty = s.dirty /\ r.fb = s.fb /\ r.deferred = s.deferred
             /\ (r.pass = "none" <=> s.pass = "none")
<1> DEFINE r == SuspendRenderPass(s)
<1>1. CASE s.pass # "bound"
  BY <1>1 DEF SuspendRenderPass, SameSeen
<1>2. CASE s.pass = "bound"
  <2>1. r = [s EXCEPT !.pass = "suspended"]
    BY <1>2 DEF SuspendRenderPass
  <2>2. /\ DOMAIN r = ContextFields /\ r.pass = "suspended" /\ r.targets = s.targets
        /\ r.dirty = s.dirty /\ r.fb = s.fb /\ r.rt = s.rt /\ r.ops = s.ops
        /\ r.deferred = s.deferred /\ r.content = s.content /\ r.layout = s.layout
        /\ r.valid = s.valid /\ r.stray = s.stray
    BY <2>1 DEF Idle, GoodContext, ContextFields
  <2> HIDE DEF r
  <2>3. Idle(r)
    BY <2>2 DEF Idle, GoodContext, Tracked
  <2>4. SameSeen(s, r)
    BY <2>2 DEF SameSeen, SeenIn, Deferred
  <2> QED
    BY <1>2, <2>2, <2>3, <2>4 DEF r
<1> QED
  BY <1>1, <1>2

LEMMA Started ==
  ASSUME NEW s, Idle(s)
  PROVE  LET r == StartRenderPass(s)
         IN  /\ Idle(r) /\ SameSeen(s, r) /\ r.pass = "bound" /\ r.deferred = <<>>
             /\ r.fb = s.fb
<1> DEFINE r == StartRenderPass(s)
           t == FlushClears(s, TRUE)
           d == s.deferred
           m == Len(d)
<1>1. CASE s.pass = "bound"
  BY <1>1 DEF StartRenderPass, SameSeen, Idle
<1>2. CASE s.pass # "bound"
  <2>1. r = Begin(t)
    BY <1>2 DEF StartRenderPass
  <2>2. Partly(s, AllImages, TRUE, m, t)
    BY AllPerformed DEF Idle, FlushClears, AllImages
  <2> HIDE DEF r, t
  <2>3. /\ GoodContext(t) /\ t.fb = s.fb /\ (Tracked(s) => Tracked(t))
        /\ Waiting(d, AllImages, m, t) /\ Slots(d, t.fb, m, t) /\ Contents(d, AllImages, s.content, m, t)
    BY <2>2 DEF Partly
  <2>4. GoodContext(s) /\ Tracked(s)
    BY DEF Idle
  <2>5. \A k \in 1 .. m : d[k] \in Deferred(s) /\ GoodEntry(d[k]) /\ d[k].view.image \in AllImages
    BY <2>4, DeferredOf, ImageOfEntry
  <2>6. Deferred(t) = {}
    BY <2>3, <2>5 DEF Waiting
  <2>7. t.deferred = <<>>
    BY <2>3, <2>6, NothingDeferred
  <2>8. \A i \in DOMAIN t.ops : t.ops[i] \in Deferred(s)
    BY <2>3, <2>5 DEF Slots
  <2>9. GoodOps(t)
    <3>1. \A i \in DOMAIN t.ops : /\ i \in DOMAIN t.fb /\ Subs(t.fb[i].view) = Subs(t.ops[i].view)
                                  /\ GoodEntry(t.ops[i])
      BY <2>3, <2>4, <2>8, DeferredOf DEF Slots
    <3>2. NonOverlapping({t.ops[i] : i \in DOMAIN t.ops})
      BY <2>4, <2>8, DeferredOf DEF NonOverlapping
    <3> QED
      BY <3>1, <3>2 DEF GoodOps
  <2>10. /\ GoodContext(r)
         /\ r.pass = "bound" /\ r.targets = t.targets /\ r.dirty = t.dirty /\ r.fb = t.fb
         /\ r.ops = <<>> /\ r.deferred = t.deferred
         /\ Tracked(t) => Tracked(r)
         /\ \A c \in Cells :
              /\ \A i \in DOMAIN t.ops : Hits(t.ops[i], c) => r.content[c] = Result(t.ops[i], c)
              /\ (\A i \in DOMAIN t.ops : ~Hits(t.ops[i], c)) => r.content[c] = t.content[c]
    BY <2>1, <2>3, <2>9, Begun
  <2>11. Idle(r)
    BY <2>3, <2>4, <2>7, <2>10 DEF Idle
  <2>12. ASSUME NEW c \in Cells PROVE SeenIn(r)[c] = SeenIn(s)[c]
    <3>1. SeenIn(r)[c] = r.content[c]
      BY <2>7, <2>10, NothingDeferred
    <3>2. CASE \E e \in Deferred(s) : Hits(e, c)
      <4>1. PICK e \in Deferred(s) : Hits(e, c)
        BY <3>2
      <4>2. PICK k \in 1 .. m : e = d[k]
        BY <2>4, DeferredOf
      <4>3. SeenIn(s)[c] = Result(e, c)
        BY <2>4, <4>1, SeenAt
      <4>4. CASE \E i \in DOMAIN t.ops : Hits(t.ops[i], c)
        <5>1. PICK i \in DOMAIN t.ops : Hits(t.ops[i], c)
          BY <4>4
        <5>2. t.ops[i] = e
          BY <2>4, <2>8, <4>1, <5>1, HitsOverlap, DeferredOf DEF NonOverlapping
        <5> QED
          BY <2>10, <3>1, <4>3, <5>1, <5>2
      <4>5. CASE \A i \in DOMAIN t.ops : ~Hits(t.ops[i], c)
        <5>1. t.content[c] = Result(e, c)
          BY <2>3, <2>5, <4>1, <4>2, <4>5 DEF Contents
        <5> QED
          BY <2>10, <3>1, <4>3, <4>5, <5>1
      <4> QED
        BY <4>4, <4>5
    <3>3. CASE \A e \in Deferred(s) : ~Hits(e, c)
      <4>1. t.content[c] = s.content[c]
        BY <2>3, <2>5, <3>3 DEF Contents
      <4>2. r.content[c] = t.content[c]
        BY <2>8, <2>10, <3>3
      <4> QED
        BY <2>4, <3>1, <3>3, <4>1, <4>2, SeenAt
    <3> QED
      BY <3>2, <3>3
  <2> QED
    BY <2>3, <2>7, <2>10, <2>11, <2>12 DEF SameSeen, r
<1> QED
  BY <1>1, <1>2

\* Attachments in their default layout: so is everything else, unless a clear went astray.
AllDefault(s) == ~s.stray => s.valid /\ \A x \in Subresources : s.layout[x] = "default"

LEMMA Ended ==
  ASSUME NEW s, Idle(s)
  PROVE  LET r == EndRenderPass(s)
         IN  /\ Idle(r) /\ SameSeen(s, r) /\ r.pass = "none" /\ r.deferred = <<>>
             /\ r.fb = s.fb /\ AllDefault(r)
<1> DEFINE slots == DOMAIN s.fb
           t == [s EXCEPT !.pass = "none"]
           u == IF s.pass = "none" THEN s ELSE ToDefault(t, slots)
           r == EndRenderPass(s)
<1>1. r = IF s.pass = "bound" THEN u ELSE FlushClears(u, FALSE)
  BY DEF EndRenderPass
<1>2. GoodContext(s) /\ Tracked(s) /\ s.ops = <<>>
  BY DEF Idle
<1>3. /\ GoodContext(u) /\ Tracked(u) /\ u.ops = <<>> /\ u.pass = "none" /\ u.fb = s.fb
      /\ u.deferred = s.deferred /\ u.content = s.content
      /\ \A i \in DOMAIN u.fb : u.rt[i] = "default"
  <2>1. CASE s.pass = "none"
    BY <2>1 DEF Idle
  <2>2. CASE s.pass # "none"
    <3>1. /\ DOMAIN t = ContextFields /\ t.pass = "none" /\ t.targets = s.targets
          /\ t.dirty = s.dirty /\ t.fb = s.fb /\ t.rt = s.rt /\ t.ops = s.ops
          /\ t.deferred = s.deferred /\ t.content = s.content /\ t.layout = s.layout
          /\ t.valid = s.valid /\ t.stray = s.stray
      BY <1>2 DEF GoodContext, ContextFields
    <3> HIDE DEF t, slots
    <3>2. GoodContext(t) /\ Tracked(t)
      BY <1>2, <3>1 DEF GoodContext, Tracked
    <3>3. slots \in SUBSET DOMAIN t.fb
      BY <3>1 DEF slots
    <3>4. u = ToDefault(t, slots)
      BY <2>2
    <3> HIDE DEF u
    <3>5. /\ SameBut(t, u) /\ u.ops = t.ops /\ u.content = t.content
          /\ GoodContext(u) /\ Tracked(u)
          /\ \A i \in DOMAIN t.fb : u.rt[i] = IF i \in slots THEN "default" ELSE t.rt[i]
      BY <3>2, <3>3, <3>4, ToDefaultMoves
    <3> QED
      BY <1>2, <3>1, <3>5 DEF SameBut, slots
  <2> QED
    BY <2>1, <2>2
<1> HIDE DEF u, r
<1>4. SameSeen(s, u)
  BY <1>3 DEF SameSeen, SeenIn, Deferred
<1>5. /\ GoodContext(r) /\ Tracked(r) /\ r.ops = <<>> /\ r.pass = "none" /\ r.fb = s.fb
      /\ r.rt = u.rt /\ r.deferred = <<>> /\ SameSeen(s, r)
  <2>1. CASE s.pass = "bound"
    BY <1>1, <1>3, <1>4, <2>1 DEF Idle
  <2>2. CASE s.pass # "bound"
    <3>1. r = FlushClears(u, FALSE)
      BY <1>1, <2>2
    <3>2. /\ GoodContext(r) /\ r.pass = u.pass /\ r.fb = u.fb /\ r.rt = u.rt /\ r.ops = <<>>
          /\ Tracked(r) /\ r.deferred = <<>> /\ SameSeen(u, r)
      BY <1>3, <3>1, AllCleared
    <3> QED
      BY <1>3, <1>4, <3>2 DEF SameSeen
  <2> QED
    BY <2>1, <2>2
<1>6. \A i \in DOMAIN r.fb : r.rt[i] = "default"
  BY <1>3, <1>5
<1>7. Idle(r)
  BY <1>5, <1>6 DEF Idle
<1>8. AllDefault(r)
  BY <1>5, <1>6, Tracks DEF AllDefault, Tracked
<1> QED
  BY <1>5, <1>7, <1>8 DEF r

\* What stays attached stays in its layout, and what is attached newly comes in the default one.
LEMMA FramebufferUpdated ==
  ASSUME NEW s, Idle(s)
  PROVE  LET r == UpdateFramebuffer(s) IN Idle(r) /\ SameSeen(s, r)
<1> DEFINE r == UpdateFramebuffer(s)
           t == SuspendRenderPass(s)
           gone == {i \in DOMAIN t.fb :
                      \A j \in DOMAIN t.targets : Subs(t.targets[j].view) # Subs(t.fb[i].view)}
           u == IF t.pass = "suspended" THEN ToDefault(t, gone) ELSE t
           Old(j) == {i \in DOMAIN t.fb : Subs(t.fb[i].view) = Subs(t.targets[j].view)}
           rt == [j \in DOMAIN t.targets |->
                    IF Old(j) = {} THEN "default" ELSE t.rt[CHOOSE i \in Old(j) : TRUE]]
<1>1. CASE ~s.dirty
  BY <1>1 DEF UpdateFramebuffer, SameSeen
<1>2. CASE s.dirty
  <2>1. r = [u EXCEPT !.dirty = FALSE, !.fb = t.targets, !.rt = rt]
    BY <1>2 DEF UpdateFramebuffer
  <2>2. Idle(t) /\ SameSeen(s, t) /\ t.pass # "bound"
    BY Suspended
  <2> HIDE DEF r, t
  <2>3. /\ GoodContext(t) /\ Tracked(t) /\ t.ops = <<>> /\ DOMAIN t = ContextFields
        /\ t.fb \in Targets \cup {<<>>} /\ t.targets \in Targets \cup {<<>>}
        /\ \A i \in DOMAIN t.fb : t.rt[i] \in Layouts
    BY <2>2 DEF Idle, GoodContext
  <2>4. gone \in SUBSET DOMAIN t.fb
    OBVIOUS
  <2>5. \A i \in gone : \A j \in DOMAIN t.targets : Subs(t.targets[j].view) # Subs(t.fb[i].view)
    OBVIOUS
  <2>6. \A i \in DOMAIN t.fb \ gone : \E j \in DOMAIN t.targets :
          Subs(t.targets[j].view) = Subs(t.fb[i].view)
    OBVIOUS
  <2>7. \A j \in DOMAIN t.targets : rt[j] = IF Old(j) = {} THEN "default"
                                            ELSE t.rt[CHOOSE i \in Old(j) : TRUE]
    OBVIOUS
  <2>8. DOMAIN rt = DOMAIN t.targets
    OBVIOUS
  <2> HIDE DEF gone, rt
  <2>9. /\ SameBut(t, u) /\ u.ops = <<>> /\ u.stray = t.stray /\ u.content = t.content
        /\ GoodContext(u) /\ Tracked(u)
        /\ \A i \in DOMAIN t.fb : u.rt[i] = IF i \in gone THEN "default" ELSE t.rt[i]
    <3>1. CASE t.pass = "suspended"
      BY <2>3, <2>4, <3>1, ToDefaultMoves
    <3>2. CASE t.pass = "none"
      BY <2>2, <2>3, <3>2 DEF SameBut, Idle
    <3> QED
      BY <2>2, <2>3, <3>1, <3>2 DEF GoodContext
  <2> HIDE DEF u
  <2>10. /\ DOMAIN r = ContextFields /\ r.pass = t.pass /\ r.targets = t.targets /\ r.dirty = FALSE
         /\ r.fb = t.targets /\ r.rt = rt /\ r.ops = <<>> /\ r.deferred = t.deferred
         /\ r.content = t.content /\ r.layout = u.layout /\ r.valid = u.valid /\ r.stray = t.stray
    BY <2>1, <2>9 DEF SameBut, ContextFields
  <2>11. ASSUME NEW j \in DOMAIN t.targets
         PROVE  \/ Old(j) = {} /\ rt[j] = "default"
                \/ \E i \in DOMAIN t.fb \ gone : /\ Subs(t.fb[i].view) = Subs(t.targets[j].view)
                                                 /\ rt[j] = t.rt[i]
    <3>1. CASE Old(j) = {}
      BY <2>7, <3>1
    <3>2. CASE Old(j) # {}
      <4> DEFINE i == CHOOSE i \in Old(j) : TRUE
      <4>1. i \in Old(j)
        BY <3>2
      <4>2. rt[j] = t.rt[i]
        BY <2>7, <3>2
      <4> HIDE DEF i
      <4>3. i \in DOMAIN t.fb /\ Subs(t.fb[i].view) = Subs(t.targets[j].view)
        BY <4>1
      <4>4. i \notin gone
        BY <2>5, <4>3
      <4> QED
        BY <4>2, <4>3, <4>4
    <3> QED
      BY <3>1, <3>2
  <2>12. GoodContext(r)
    <3>1. \A j \in DOMAIN t.targets : rt[j] \in Layouts
      BY <2>3, <2>11 DEF Layouts
    <3> QED
      BY <2>3, <2>8, <2>9, <2>10, <3>1 DEF GoodContext
  <2>13. ASSUME ~t.stray PROVE Tracked(r)
    <3>1. u.valid /\ \A i \in DOMAIN t.fb : \A x \in Subs(t.fb[i].view) : u.layout[x] = u.rt[i]
      BY <2>9, <2>13 DEF Tracked, SameBut
    <3>2. ASSUME NEW x \in Subresources, \A i \in DOMAIN t.fb \ gone : x \notin Subs(t.fb[i].view)
          PROVE  u.layout[x] = "default"
      <4>1. u.layout[x] = "default" \/ \E i \in DOMAIN u.fb : /\ x \in Subs(u.fb[i].view)
                                                              /\ u.layout[x] = u.rt[i]
        BY <2>9, <2>13, Tracks
      <4> QED
        BY <2>9, <3>2, <4>1 DEF SameBut
    <3>3. ASSUME NEW j \in DOMAIN t.targets, NEW x \in Subs(t.targets[j].view)
          PROVE  u.layout[x] = rt[j]
      <4>1. x \in Subresources
        BY <2>3, Attachments DEF GoodView
      <4>2. CASE Old(j) = {} /\ rt[j] = "default"
        <5>1. ASSUME NEW i \in DOMAIN t.fb \ gone, x \in Subs(t.fb[i].view) PROVE FALSE
          <6>1. PICK k \in DOMAIN t.targets : Subs(t.targets[k].view) = Subs(t.fb[i].view)
            BY <2>6
          <6>2. k = j
            BY <2>3, <3>3, <5>1, <6>1, Attachments
          <6> QED
            BY <4>2, <6>1, <6>2
        <5> QED
          BY <3>2, <4>1, <4>2, <5>1
      <4>3. CASE \E i \in DOMAIN t.fb \ gone : /\ Subs(t.fb[i].view) = Subs(t.targets[j].view)
                                               /\ rt[j] = t.rt[i]
        BY <2>9, <3>1, <4>3
      <4> QED
        BY <2>11, <4>2, <4>3
    <3>4. ASSUME NEW x \in Subresources, \A j \in DOMAIN t.targets : x \notin Subs(t.targets[j].view)
          PROVE  u.layout[x] = "default"
      <4>1. \A i \in DOMAIN t.fb \ gone : x \notin Subs(t.fb[i].view)
        BY <2>6, <3>4
      <4> QED
        BY <3>2, <4>1
    <3> QED
      BY <2>10, <3>1, <3>3, <3>4 DEF Tracked
  <2>14. r.pass = "none" => \A j \in DOMAIN r.fb : r.rt[j] = "default"
    BY <2>2, <2>10, <2>11 DEF Idle
  <2>15. Idle(r)
    BY <2>2, <2>10, <2>12, <2>13, <2>14 DEF Idle, Tracked
  <2>16. SameSeen(s, r)
    BY <2>2, <2>10 DEF SameSeen, SeenIn, Deferred
  <2> QED
    BY <2>15, <2>16 DEF r
<1> QED
  BY <1>1, <1>2

LEMMA Prepared ==
  ASSUME NEW s, Idle(s), s.pass # "bound", NEW image, NEW subs, NEW flush \in BOOLEAN
  PROVE  LET r == PrepareImage(s, image, subs, flush)
         IN  /\ Idle(r) /\ SameSeen(s, r) /\ r.pass # "bound" /\ r.fb = s.fb
             /\ flush => r.deferred = <<>>
             /\ s.deferred = <<>> => r.stray = s.stray
             /\ ~r.stray => \A x \in Subresources :
                  /\ x \in {image} \X subs => r.layout[x] = "default"
                  /\ s.deferred = <<>> /\ s.layout[x] = "default" => r.layout[x] = "default"
<1> DEFINE t == IF flush /\ s.deferred # <<>> THEN EndRenderPass(s) ELSE s
           slots == {i \in DOMAIN t.fb : Subs(t.fb[i].view) \cap ({image} \X subs) # {}}
           r == PrepareImage(s, image, subs, flush)
<1>1. r = IF t.pass # "suspended" THEN t ELSE ToDefault(t, slots)
  BY DEF PrepareImage
<1>2. /\ Idle(t) /\ SameSeen(s, t) /\ t.pass # "bound" /\ t.fb = s.fb
      /\ flush => t.deferred = <<>>
      /\ s.deferred = <<>> => t = s
  <2>1. CASE flush /\ s.deferred # <<>>
    BY <2>1, Ended
  <2>2. CASE ~(flush /\ s.deferred # <<>>)
    BY <2>2 DEF SameSeen
  <2> QED
    BY <2>1, <2>2
<1>3. slots \in SUBSET DOMAIN t.fb
  OBVIOUS
<1>4. \A i \in DOMAIN t.fb \ slots : Subs(t.fb[i].view) \cap ({image} \X subs) = {}
  OBVIOUS
<1> HIDE DEF t, r, slots
<1>5. GoodContext(t) /\ Tracked(t) /\ t.pass \in {"none", "suspended"}
  BY <1>2 DEF Idle, GoodContext
<1>6. CASE t.pass = "none"
  <2>1. r = t
    BY <1>1, <1>6
  <2>2. ~t.stray => \A x \in Subresources : t.layout[x] = "default"
    BY <1>2, <1>5, <1>6, Tracks DEF Idle
  <2> QED
    BY <1>2, <2>1, <2>2 DEF r
<1>7. CASE t.pass = "suspended"
  <2>1. r = ToDefault(t, slots)
    BY <1>1, <1>7
  <2>2. /\ SameBut(t, r) /\ r.ops = t.ops /\ r.stray = t.stray /\ r.content = t.content
        /\ GoodContext(r) /\ Tracked(r)
        /\ \A i \in DOMAIN t.fb : r.rt[i] = IF i \in slots THEN "default" ELSE t.rt[i]
    BY <1>3, <1>5, <2>1, ToDefaultMoves
  <2>3. Idle(r)
    BY <1>2, <1>7, <2>2 DEF Idle, SameBut
  <2>4. SameSeen(s, r)
    <3>1. SeenIn(r) = SeenIn(t)
      BY <2>2 DEF SeenIn, Deferred, SameBut
    <3> QED
      BY <1>2, <3>1 DEF SameSeen
  <2>5. ASSUME ~r.stray, NEW x \in Subresources, x \in {image} \X subs PROVE r.layout[x] = "default"
    <3>1. r.layout[x] = "default" \/ \E i \in DOMAIN r.fb : x \in Subs(r.fb[i].view) /\ r.layout[x] = r.rt[i]
      BY <2>2, <2>5, Tracks
    <3> QED
      BY <1>4, <2>2, <2>5, <3>1 DEF SameBut
  <2>6. ASSUME ~r.stray, NEW x \in Subresources, t.layout[x] = "default" PROVE r.layout[x] = "default"
    <3>1. r.layout[x] = "default" \/ \E i \in DOMAIN r.fb : x \in Subs(r.fb[i].view) /\ r.layout[x] = r.rt[i]
      BY <2>2, <2>6, Tracks
    <3>2. \A i \in DOMAIN t.fb : x \in Subs(t.fb[i].view) => t.rt[i] = "default"
      BY <1>5, <2>2, <2>6 DEF Tracked
    <3> QED
      BY <2>2, <3>1, <3>2 DEF SameBut
  <2> QED
    BY <1>2, <1>7, <2>2, <2>3, <2>4, <2>5, <2>6 DEF SameBut, r
<1> QED
  BY <1>5, <1>6, <1>7

\* A clear of a view, merged with the one that waits for the same subresources.
LEMMA MergedEntry ==
  ASSUME NEW old, NEW e, GoodEntry(old), GoodEntry(e), Subs(old.view) = Subs(e.view)
  PROVE  LET m == Merged(old, e)
         IN  /\ GoodEntry(m) /\ m.view = e.view
             /\ \A c \in Cells :
                  /\ Hits(m, c) <=> Hits(old, c) \/ Hits(e, c)
                  /\ Hits(e, c) => Result(m, c) = Result(e, c)
                  /\ Hits(old, c) /\ ~Hits(e, c) => Result(m, c) = Result(old, c)
<1> DEFINE m == Merged(old, e)
<1>1. /\ DOMAIN m = {"view", "discard", "clear", "value"}
      /\ m.view = e.view
      /\ m.discard = (old.discard \ e.clear) \cup e.discard
      /\ m.clear = (old.clear \ e.discard) \cup e.clear
      /\ \A a \in m.clear : m.value[a] = IF a \in e.clear THEN e.value[a] ELSE old.value[a]
  BY DEF Merged
<1> HIDE DEF m
<1>2. old.view.aspects = e.view.aspects
  BY SameAspects DEF GoodEntry
<1>3. GoodEntry(m)
  BY <1>1, <1>2 DEF GoodEntry
<1>4. ASSUME NEW c \in Cells
      PROVE  /\ Hits(m, c) <=> Hits(old, c) \/ Hits(e, c)
             /\ Hits(e, c) => Result(m, c) = Result(e, c)
             /\ Hits(old, c) /\ ~Hits(e, c) => Result(m, c) = Result(old, c)
  <2>1. /\ Hits(m, c) <=> Place(c) \in Subs(e.view) /\ c[3] \in m.clear \cup m.discard
        /\ Hits(e, c) <=> Place(c) \in Subs(e.view) /\ c[3] \in e.clear \cup e.discard
        /\ Hits(old, c) <=> Place(c) \in Subs(e.view) /\ c[3] \in old.clear \cup old.discard
    BY <1>1, CellOfView DEF Hits
  <2> QED
    BY <1>1, <2>1 DEF Result
<1> QED
  BY <1>1, <1>3, <1>4 DEF m

LEMMA Replaced ==
  ASSUME NEW d, GoodClears(d), NEW k \in DOMAIN d, NEW m, GoodEntry(m),
         Subs(m.view) = Subs(d[k].view)
  PROVE  LET r == [d EXCEPT ![k] = m]
         IN  /\ GoodClears(r) /\ DOMAIN r = DOMAIN d
             /\ \A j \in DOMAIN d : r[j] = IF j = k THEN m ELSE d[j]
<1> DEFINE r == [d EXCEPT ![k] = m]
           R == {r[j] : j \in DOMAIN r}
<1>1. DOMAIN d = 1 .. Len(d) /\ Len(d) \in Nat
  BY ClearsOf
<1>2. /\ r = [j \in DOMAIN d |-> r[j]] /\ DOMAIN r = DOMAIN d
      /\ \A j \in DOMAIN d : r[j] = IF j = k THEN m ELSE d[j]
  <2>1. d \in Seq({d[j] : j \in DOMAIN d})
    BY DEF GoodClears
  <2>2. d = [j \in DOMAIN d |-> d[j]]
    BY <2>1
  <2> QED
    BY <2>2
<1>3. r \in Seq(R)
  <2>1. \A j \in DOMAIN r : r[j] \in R
    OBVIOUS
  <2> HIDE DEF r, R
  <2>2. r \in [1 .. Len(d) -> R]
    BY <1>1, <1>2, <2>1
  <2> QED
    BY <1>1, <2>2, SeqDef
<1> HIDE DEF r
<1>4. \A j \in DOMAIN d : GoodEntry(d[j])
  BY DEF GoodClears
<1>5. \A j \in DOMAIN r : GoodEntry(r[j])
  BY <1>2, <1>4
<1>6. \A j \in DOMAIN d : Subs(r[j].view) = Subs(d[j].view)
  BY <1>2
<1>7. \A i, j \in DOMAIN r : i # j => ~Overlap(r[i].view, r[j].view)
  BY <1>2, <1>6 DEF GoodClears, Overlap
<1>8. GoodClears(r)
  BY <1>3, <1>5, <1>7 DEF GoodClears
<1> QED
  BY <1>2, <1>8 DEF r

\* The clear e comes after all that r holds.
SeenAfter(s, r, e) ==
  \A c \in Cells : SeenIn(r)[c] = IF Hits(e, c) THEN Result(e, c) ELSE SeenIn(s)[c]

LEMMA WithDeferred ==
  ASSUME NEW s, Idle(s), s.pass # "bound", NEW d, GoodClears(d)
  PROVE  LET r == [s EXCEPT !.deferred = d]
         IN Idle(r) /\ r.pass = s.pass /\ r.deferred = d /\ r.content = s.content
<1> DEFINE r == [s EXCEPT !.deferred = d]
<1>1. GoodContext(s) /\ Tracked(s) /\ DOMAIN s = ContextFields
  BY DEF Idle, GoodContext
<1>2. /\ DOMAIN r = ContextFields /\ r.pass = s.pass /\ r.targets = s.targets
      /\ r.dirty = s.dirty /\ r.fb = s.fb /\ r.rt = s.rt /\ r.ops = s.ops
      /\ r.deferred = d /\ r.content = s.content /\ r.layout = s.layout
      /\ r.valid = s.valid /\ r.stray = s.stray
  BY <1>1 DEF ContextFields
<1> HIDE DEF r
<1>3. GoodContext(r) /\ Tracked(r)
  BY <1>1, <1>2 DEF GoodContext, Tracked
<1>4. Idle(r)
  BY <1>2, <1>3 DEF Idle
<1> QED
  BY <1>2, <1>4 DEF r

LEMMA Added ==
  ASSUME NEW s, Idle(s), s.pass # "bound", NEW e, GoodEntry(e),
         \A k \in DOMAIN s.deferred : ~Overlap(s.deferred[k].view, e.view)
  PROVE  LET r == [s EXCEPT !.deferred = Append(@, e)]
         IN Idle(r) /\ r.pass = s.pass /\ SeenAfter(s, r, e)
<1> DEFINE d == Append(s.deferred, e)
           r == [s EXCEPT !.deferred = d]
<1>1. GoodClears(s.deferred) /\ GoodContext(s)
  BY DEF Idle, GoodContext
<1>2. GoodClears(d) /\ EntriesOf(d) = EntriesOf(s.deferred) \cup {e}
  BY <1>1, Appended
<1> HIDE DEF d
<1>3. Idle(r) /\ r.pass = s.pass /\ r.deferred = d /\ r.content = s.content
  BY <1>2, WithDeferred
<1> HIDE DEF r
<1>4. Deferred(r) = Deferred(s) \cup {e}
  BY <1>2, <1>3 DEF Deferred, EntriesOf
<1>5. ASSUME NEW c \in Cells
      PROVE  SeenIn(r)[c] = IF Hits(e, c) THEN Result(e, c) ELSE SeenIn(s)[c]
  <2>1. GoodContext(r)
    BY <1>3 DEF Idle
  <2>2. CASE Hits(e, c)
    BY <1>4, <2>1, <2>2, SeenAt
  <2>3. CASE ~Hits(e, c) /\ \E f \in Deferred(s) : Hits(f, c)
    BY <1>1, <1>4, <2>1, <2>3, SeenAt
  <2>4. CASE ~Hits(e, c) /\ \A f \in Deferred(s) : ~Hits(f, c)
    BY <1>1, <1>3, <1>4, <2>1, <2>4, SeenAt
  <2> QED
    BY <2>2, <2>3, <2>4
<1> QED
  BY <1>3, <1>5 DEF SeenAfter, r, d

LEMMA MergedIn ==
  ASSUME NEW s, Idle(s), s.pass # "bound", NEW e, GoodEntry(e), NEW k \in DOMAIN s.deferred,
         Subs(s.deferred[k].view) = Subs(e.view)
  PROVE  LET r == [s EXCEPT !.deferred[k] = Merged(s.deferred[k], e)]
         IN Idle(r) /\ r.pass = s.pass /\ SeenAfter(s, r, e)
<1> DEFINE old == s.deferred[k]
           m == Merged(old, e)
           d == [s.deferred EXCEPT ![k] = m]
           r == [s EXCEPT !.deferred = d]
<1>1. GoodClears(s.deferred) /\ GoodContext(s) /\ GoodEntry(old) /\ "deferred" \in DOMAIN s
  BY DEF Idle, GoodContext, GoodClears, ContextFields
<1>2. /\ GoodEntry(m) /\ m.view = e.view
      /\ \A c \in Cells :
           /\ Hits(m, c) <=> Hits(old, c) \/ Hits(e, c)
           /\ Hits(e, c) => Result(m, c) = Result(e, c)
           /\ Hits(old, c) /\ ~Hits(e, c) => Result(m, c) = Result(old, c)
  BY <1>1, MergedEntry
<1> HIDE DEF m
<1>3. /\ GoodClears(d) /\ DOMAIN d = DOMAIN s.deferred
      /\ \A j \in DOMAIN s.deferred : d[j] = IF j = k THEN m ELSE s.deferred[j]
  BY <1>1, <1>2, Replaced
<1> HIDE DEF d
<1>4. Idle(r) /\ r.pass = s.pass /\ r.deferred = d /\ r.content = s.content
  BY <1>3, WithDeferred
<1> HIDE DEF r
<1>5. m \in Deferred(r) /\ old \in Deferred(s)
  BY <1>3, <1>4 DEF Deferred
<1>6. ASSUME NEW f \in Deferred(r), f # m PROVE f \in Deferred(s) /\ ~Overlap(f.view, old.view)
  <2>1. PICK j \in DOMAIN d : f = d[j]
    BY <1>4 DEF Deferred
  <2>2. j # k /\ f = s.deferred[j]
    BY <1>3, <1>6, <2>1
  <2> QED
    BY <1>1, <1>3, <2>1, <2>2 DEF Deferred, GoodClears
<1>7. ASSUME NEW f \in Deferred(s), f # old PROVE f \in Deferred(r)
  <2>1. PICK j \in DOMAIN s.deferred : f = s.deferred[j]
    BY DEF Deferred
  <2> QED
    BY <1>3, <1>4, <1>7, <2>1 DEF Deferred
<1> HIDE DEF old
<1>8. ASSUME NEW c \in Cells
      PROVE  SeenIn(r)[c] = IF Hits(e, c) THEN Result(e, c) ELSE SeenIn(s)[c]
  <2>1. GoodContext(r)
    BY <1>4 DEF Idle
  <2>2. CASE Hits(e, c)
    BY <1>2, <1>5, <2>1, <2>2, SeenAt
  <2>3. CASE ~Hits(e, c) /\ Hits(old, c)
    BY <1>1, <1>2, <1>5, <2>1, <2>3, SeenAt
  <2>4. CASE ~Hits(e, c) /\ ~Hits(old, c) /\ \E f \in Deferred(s) : Hits(f, c)
    BY <1>1, <1>7, <2>1, <2>4, SeenAt
  <2>5. CASE ~Hits(e, c) /\ \A f \in Deferred(s) : ~Hits(f, c)
    <3>1. \A f \in Deferred(r) : ~Hits(f, c)
      BY <1>2, <1>5, <1>6, <2>5
    <3> QED
      BY <1>1, <1>4, <2>1, <2>5, <3>1, SeenAt
  <2> QED
    BY <2>2, <2>3, <2>4, <2>5
<1>9. r = [s EXCEPT !.deferred[k] = Merged(s.deferred[k], e)]
  BY <1>1 DEF r, d, m, old
<1>10. Idle(r) /\ r.pass = s.pass /\ SeenAfter(s, r, e)
  BY <1>4, <1>8 DEF SeenAfter
<1> QED
  BY <1>9, <1>10

\* However it is deferred, a clear comes after those that are deferred.
LEMMA DeferredLast ==
  ASSUME NEW s, Idle(s), s.pass # "bound", NEW e, GoodEntry(e)
  PROVE  Idle(Defer(s, e)) /\ Defer(s, e).pass # "bound" /\ SeenAfter(s, Defer(s, e), e)
<1> DEFINE d == s.deferred
           hits == {k \in DOMAIN d : Overlap(d[k].view, e.view)}
           first == CHOOSE k \in hits : \A j \in hits : k <= j
           r == Defer(s, e)
           t == EndRenderPass(s)
<1>1. CASE hits = {}
  <2>1. r = [s EXCEPT !.deferred = Append(@, e)]
    BY <1>1 DEF Defer
  <2>2. \A k \in DOMAIN d : ~Overlap(d[k].view, e.view)
    BY <1>1
  <2> HIDE DEF hits, r
  <2>3. Idle(r) /\ r.pass = s.pass /\ SeenAfter(s, r, e)
    BY <2>1, <2>2, Added
  <2> QED
    BY <2>3 DEF r
<1>2. CASE hits # {} /\ Matches(d[first].view, e.view)
  <2>1. r = [s EXCEPT !.deferred[first] = Merged(s.deferred[first], e)]
    BY <1>2 DEF Defer
  <2>2. first \in DOMAIN d
    <3>1. hits \in SUBSET Nat
      <4>1. DOMAIN d = 1 .. Len(d) /\ Len(d) \in Nat
        BY ClearsOf DEF Idle, GoodContext
      <4> QED
        BY <4>1
    <3>2. hits \subseteq DOMAIN d
      OBVIOUS
    <3> HIDE DEF hits
    <3>3. \E k \in hits : \A j \in hits : k <= j
      BY <1>2, <3>1, LeastNumber
    <3> QED
      BY <3>2, <3>3
  <2>3. Subs(d[first].view) = Subs(e.view)
    BY <1>2 DEF Matches
  <2> HIDE DEF first, r
  <2>4. Idle(r) /\ r.pass = s.pass /\ SeenAfter(s, r, e)
    BY <2>1, <2>2, <2>3, MergedIn
  <2> QED
    BY <2>4 DEF r
<1>3. CASE hits # {} /\ ~Matches(d[first].view, e.view)
  <2>1. r = [t EXCEPT !.deferred = Append(@, e)]
    BY <1>3 DEF Defer
  <2>2. Idle(t) /\ SameSeen(s, t) /\ t.pass = "none" /\ t.deferred = <<>>
    BY Ended
  <2> HIDE DEF t, r
  <2>3. \A k \in DOMAIN t.deferred : ~Overlap(t.deferred[k].view, e.view)
    BY <2>2
  <2>4. Idle(r) /\ r.pass = t.pass /\ SeenAfter(t, r, e)
    BY <2>1, <2>2, <2>3, Added
  <2>5. SeenAfter(s, r, e)
    BY <2>2, <2>4 DEF SeenAfter, SameSeen
  <2> QED
    BY <2>2, <2>4, <2>5 DEF r
<1> QED
  BY <1>1, <1>2, <1>3

-----------------------------------------------------------------------------
(* What the operations do to the context and to what is promised. *)

LEMMA StillMeets ==
  ASSUME NEW s, NEW r, SameSeen(s, r), NEW p, Meets(s, p)
  PROVE  Meets(r, p)
BY DEF Meets, SameSeen

\* Contents that change at once, with nothing deferred.
LEMMA WithContent ==
  ASSUME NEW s, Idle(s), s.deferred = <<>>, NEW content \in [Cells -> Values \cup {Undef}]
  PROVE  LET r == [s EXCEPT !.content = content]
         IN Idle(r) /\ \A c \in Cells : SeenIn(r)[c] = content[c]
<1> DEFINE r == [s EXCEPT !.content = content]
<1>1. GoodContext(s) /\ Tracked(s) /\ DOMAIN s = ContextFields
  BY DEF Idle, GoodContext
<1>2. /\ DOMAIN r = ContextFields /\ r.pass = s.pass /\ r.targets = s.targets
      /\ r.dirty = s.dirty /\ r.fb = s.fb /\ r.rt = s.rt /\ r.ops = s.ops
      /\ r.deferred = s.deferred /\ r.content = content /\ r.layout = s.layout
      /\ r.valid = s.valid /\ r.stray = s.stray
  BY <1>1 DEF ContextFields
<1> HIDE DEF r
<1>3. GoodContext(r) /\ Tracked(r)
  BY <1>1, <1>2 DEF GoodContext, Tracked
<1>4. Idle(r)
  BY <1>2, <1>3 DEF Idle
<1>5. \A c \in Cells : SeenIn(r)[c] = content[c]
  BY <1>2, <1>3, NothingDeferred
<1> QED
  BY <1>4, <1>5 DEF r

LEMMA WrittenNow ==
  ASSUME NEW s, Idle(s), s.deferred = <<>>, NEW cells, NEW x \in Values \cup {Undef},
         NEW p, Meets(s, p)
  PROVE  LET r == [s EXCEPT !.content = Written(@, cells, x)]
         IN Idle(r) /\ Meets(r, Written(p, cells, x))
<1> DEFINE content == Written(s.content, cells, x)
           r == [s EXCEPT !.content = content]
           q == Written(p, cells, x)
<1>1. GoodContext(s) /\ s.content \in [Cells -> Values \cup {Undef}]
  BY DEF Idle, GoodContext
<1>2. /\ content \in [Cells -> Values \cup {Undef}]
      /\ \A c \in Cells : content[c] = IF c \in cells THEN x ELSE s.content[c]
  BY <1>1 DEF Written
<1>3. /\ q \in [Cells -> Values \cup {Undef}]
      /\ \A c \in Cells : q[c] = IF c \in cells THEN x ELSE p[c]
  BY DEF Written, Meets
<1> HIDE DEF content, q
<1>4. Idle(r) /\ \A c \in Cells : SeenIn(r)[c] = content[c]
  BY <1>2, WithContent
<1> HIDE DEF r
<1>5. \A c \in Cells : SeenIn(s)[c] = s.content[c]
  BY <1>1, NothingDeferred
<1>6. Meets(r, q)
  BY <1>2, <1>3, <1>4, <1>5 DEF Meets
<1> QED
  BY <1>4, <1>6 DEF r, content, q

LEMMA CopyOf ==
  ASSUME NEW content \in [Cells -> Values \cup {Undef}],
         NEW dst \in Subresources, NEW src \in Subresources, dst[1] = src[1]
  PROVE  /\ Copied(content, dst, src) \in [Cells -> Values \cup {Undef}]
         /\ \A c \in Cells : Copied(content, dst, src)[c] =
              IF Place(c) = dst THEN content[<<src[1], src[2], c[3]>>] ELSE content[c]
<1>1. \A c \in Cells : Place(c) = dst => <<src[1], src[2], c[3]>> \in Cells
  BY CopiedCell
<1> QED
  BY <1>1 DEF Copied, Place

LEMMA CopiedNow ==
  ASSUME NEW s, Idle(s), s.deferred = <<>>,
         NEW dst \in Subresources, NEW src \in Subresources, dst[1] = src[1], NEW p, Meets(s, p)
  PROVE  LET r == [s EXCEPT !.content = Copied(@, dst, src)]
         IN Idle(r) /\ Meets(r, Copied(p, dst, src))
<1> DEFINE content == Copied(s.content, dst, src)
           r == [s EXCEPT !.content = content]
           q == Copied(p, dst, src)
<1>1. /\ GoodContext(s) /\ s.content \in [Cells -> Values \cup {Undef}]
      /\ p \in [Cells -> Values \cup {Undef}]
  BY DEF Idle, GoodContext, Meets
<1>2. /\ content \in [Cells -> Values \cup {Undef}]
      /\ \A c \in Cells : content[c] =
           IF Place(c) = dst THEN s.content[<<src[1], src[2], c[3]>>] ELSE s.content[c]
  BY <1>1, CopyOf
<1>3. /\ q \in [Cells -> Values \cup {Undef}]
      /\ \A c \in Cells : q[c] = IF Place(c) = dst THEN p[<<src[1], src[2], c[3]>>] ELSE p[c]
  BY <1>1, CopyOf
<1> HIDE DEF content, q
<1>4. Idle(r) /\ \A c \in Cells : SeenIn(r)[c] = content[c]
  BY <1>2, WithContent
<1> HIDE DEF r
<1>5. \A c \in Cells : p[c] \in {Undef, s.content[c]}
  BY <1>1, NothingDeferred DEF Meets
<1>6. \A c \in Cells : Place(c) = dst => <<src[1], src[2], c[3]>> \in Cells
  BY CopiedCell
<1>7. ASSUME NEW c \in Cells PROVE q[c] \in {Undef, SeenIn(r)[c]}
  <2> DEFINE d == <<src[1], src[2], c[3]>>
  <2>1. CASE Place(c) = dst
    <3>1. d \in Cells
      BY <1>6, <2>1
    <3>2. q[c] = p[d] /\ content[c] = s.content[d]
      BY <1>2, <1>3, <2>1
    <3> HIDE DEF d
    <3> QED
      BY <1>4, <1>5, <3>1, <3>2
  <2>2. CASE Place(c) # dst
    BY <1>2, <1>3, <1>4, <1>5, <2>2
  <2> QED
    BY <2>1, <2>2
<1>8. Meets(r, q)
  BY <1>3, <1>7 DEF Meets
<1> QED
  BY <1>4, <1>8 DEF r, content, q

\* A command finds its subresources as it takes them to be.
LEMMA UsedAsTheyAre ==
  ASSUME NEW s, Idle(s), NEW xs,
         ~s.stray => /\ \A x \in xs : s.layout[x] = "default"
                     /\ \A e \in Deferred(s) : Subs(e.view) \cap xs = {}
  PROVE  LET r == Used(s, xs)
         IN Idle(r) /\ SameSeen(s, r) /\ r.deferred = s.deferred
<1> DEFINE r == Used(s, xs)
<1>1. GoodContext(s) /\ Tracked(s) /\ DOMAIN s = ContextFields
  BY DEF Idle, GoodContext
<1>2. /\ DOMAIN r = ContextFields /\ r.pass = s.pass /\ r.targets = s.targets
      /\ r.dirty = s.dirty /\ r.fb = s.fb /\ r.rt = s.rt /\ r.ops = s.ops
      /\ r.deferred = s.deferred /\ r.content = s.content /\ r.layout = s.layout
      /\ r.stray = s.stray
      /\ r.valid <=> /\ s.valid
                     /\ \A x \in xs : s.layout[x] = "default"
                     /\ \A i \in DOMAIN s.deferred : Subs(s.deferred[i].view) \cap xs = {}
  BY <1>1 DEF Used, ContextFields
<1> HIDE DEF r
<1>3. ~s.stray => r.valid
  BY <1>1, <1>2 DEF Tracked, Deferred
<1>4. GoodContext(r) /\ Tracked(r)
  BY <1>1, <1>2, <1>3 DEF GoodContext, Tracked
<1>5. Idle(r)
  BY <1>2, <1>4 DEF Idle
<1>6. SameSeen(s, r)
  BY <1>2 DEF SameSeen, SeenIn, Deferred
<1> QED
  BY <1>2, <1>5, <1>6 DEF r

\* A clear of some aspects of a view, or a discard, is deferred.
LEMMA ClearDeferred ==
  ASSUME NEW s, Idle(s), s.pass # "bound", NEW e, GoodEntry(e),
         NEW cells, NEW x \in Values \cup {Undef},
         \A c \in Cells : /\ Hits(e, c) <=> c \in cells
                          /\ Hits(e, c) => Result(e, c) = x,
         NEW p, Meets(s, p)
  PROVE  Idle(Defer(s, e)) /\ Meets(Defer(s, e), Written(p, cells, x))
<1> DEFINE q == Written(p, cells, x)
           r == Defer(s, e)
<1>1. /\ q \in [Cells -> Values \cup {Undef}]
      /\ \A c \in Cells : q[c] = IF c \in cells THEN x ELSE p[c]
  BY DEF Written, Meets
<1>2. Idle(r) /\ SeenAfter(s, r, e)
  BY DeferredLast
<1> HIDE DEF q, r
<1>3. Meets(r, q)
  BY <1>1, <1>2 DEF Meets, SeenAfter
<1> QED
  BY <1>2, <1>3 DEF q, r

-----------------------------------------------------------------------------
(* The operations. *)

LEMMA InvNext ==
  ASSUME NEW r, Idle(r), NEW q, Meets(r, q), ctx' = r, promised' = q
  PROVE  ContextInv'
BY DEF ContextInv

LEMMA BindRenderTargetsStep ==
  ASSUME ContextInv, BindRenderTargets
  PROVE  ContextInv'
<1>1. PICK t \in Targets : ctx' = [ctx EXCEPT !.targets = t, !.dirty = (t # ctx.fb)]
  BY DEF BindRenderTargets
<1> DEFINE s == ctx
           r == [s EXCEPT !.targets = t, !.dirty = (t # s.fb)]
<1>2. Idle(s) /\ Meets(s, promised)
  BY DEF ContextInv
<1>3. ctx' = r /\ promised' = promised
  BY <1>1 DEF BindRenderTargets
<1> HIDE DEF s
<1>4. GoodContext(s) /\ Tracked(s) /\ DOMAIN s = ContextFields
  BY <1>2 DEF Idle, GoodContext
<1>5. /\ DOMAIN r = ContextFields /\ r.pass = s.pass /\ r.targets = t
      /\ r.fb = s.fb /\ r.rt = s.rt /\ r.ops = s.ops
      /\ r.deferred = s.deferred /\ r.content = s.content /\ r.layout = s.layout
      /\ r.valid = s.valid /\ r.stray = s.stray
  BY <1>4 DEF ContextFields
<1> HIDE DEF r
<1>6. GoodContext(r) /\ Tracked(r)
  BY <1>4, <1>5 DEF GoodContext, Tracked
<1>7. Idle(r)
  BY <1>2, <1>5, <1>6 DEF Idle
<1>8. Meets(r, promised)
  BY <1>2, <1>5 DEF Meets, SeenIn, Deferred
<1> QED
  BY <1>3, <1>7, <1>8, InvNext

\* What ClearEntry and DiscardEntry make clears of.
LEMMA ClearEntries ==
  ASSUME NEW v \in Views
  PROVE  /\ \A aspects \in SUBSET v.aspects, x \in Values :
              LET e == ClearEntry(v, aspects, x)
              IN /\ GoodEntry(e)
                 /\ \A c \in Cells : /\ Hits(e, c) <=> c \in CellsOf(v, aspects)
                                     /\ Hits(e, c) => Result(e, c) = x
         /\ LET e == DiscardEntry(v)
            IN /\ GoodEntry(e)
               /\ \A c \in Cells : /\ Hits(e, c) <=> c \in CellsOf(v, v.aspects)
                                   /\ Hits(e, c) => Result(e, c) = Undef
<1>1. GoodView(v)
  BY ViewsAreGood
<1>2. ASSUME NEW aspects \in SUBSET v.aspects, NEW x \in Values
      PROVE  LET e == ClearEntry(v, aspects, x)
             IN /\ GoodEntry(e)
                /\ \A c \in Cells : /\ Hits(e, c) <=> c \in CellsOf(v, aspects)
                                    /\ Hits(e, c) => Result(e, c) = x
  <2> DEFINE e == ClearEntry(v, aspects, x)
  <2>1. /\ DOMAIN e = {"view", "discard", "clear", "value"}
        /\ e.view = v /\ e.discard = {} /\ e.clear = aspects
        /\ \A a \in aspects : e.value[a] = x
    BY DEF ClearEntry
  <2> HIDE DEF e
  <2>2. GoodEntry(e)
    BY <1>1, <2>1 DEF GoodEntry
  <2>3. e.clear \cup e.discard = aspects
    BY <2>1
  <2>4. \A c \in Cells : Hits(e, c) <=> c \in CellsOf(v, aspects)
    BY <2>1, <2>3 DEF Hits
  <2>5. \A c \in Cells : Hits(e, c) => Result(e, c) = x
    BY <2>1, <2>3, HitPlace DEF Result
  <2> QED
    BY <2>2, <2>4, <2>5 DEF e
<1>3. LET e == DiscardEntry(v)
      IN /\ GoodEntry(e)
         /\ \A c \in Cells : /\ Hits(e, c) <=> c \in CellsOf(v, v.aspects)
                             /\ Hits(e, c) => Result(e, c) = Undef
  <2> DEFINE e == DiscardEntry(v)
  <2>1. /\ DOMAIN e = {"view", "discard", "clear", "value"}
        /\ e.view = v /\ e.discard = v.aspects /\ e.clear = {}
    BY DEF DiscardEntry
  <2> HIDE DEF e
  <2>2. GoodEntry(e)
    BY <1>1, <2>1 DEF GoodEntry
  <2>3. e.clear \cup e.discard = v.aspects
    BY <2>1
  <2>4. \A c \in Cells : Hits(e, c) <=> c \in CellsOf(v, v.aspects)
    BY <2>1, <2>3 DEF Hits
  <2>5. \A c \in Cells : Hits(e, c) => Result(e, c) = Undef
    BY <2>1 DEF Result
  <2> QED
    BY <2>2, <2>4, <2>5 DEF e
<1> QED
  BY <1>2, <1>3

LEMMA ClearRenderTargetStep ==
  ASSUME ContextInv, ClearRenderTarget
  PROVE  ContextInv'
<1>1. PICK v \in Views, x \in Values : \E aspects \in SUBSET v.aspects \ {{}} :
        LET slots == Attachment(ctx.fb, v)
            writable == \A i \in slots : aspects \subseteq WritableAspects(ctx.fb[i])
            s == IF slots = {} THEN PrepareImage(SuspendRenderPass(ctx), v.image, v.subs, FALSE)
                 ELSE IF writable THEN ctx ELSE SuspendRenderPass(ctx)
            cells == CellsOf(v, aspects)
        IN Do(IF s.pass = "bound" THEN [s EXCEPT !.content = Written(@, cells, x)]
              ELSE Defer(s, ClearEntry(v, aspects, x)), Written(promised, cells, x))
  BY DEF ClearRenderTarget
<1>2. PICK aspects \in SUBSET v.aspects :
        LET slots == Attachment(ctx.fb, v)
            writable == \A i \in slots : aspects \subseteq WritableAspects(ctx.fb[i])
            s == IF slots = {} THEN PrepareImage(SuspendRenderPass(ctx), v.image, v.subs, FALSE)
                 ELSE IF writable THEN ctx ELSE SuspendRenderPass(ctx)
            cells == CellsOf(v, aspects)
        IN Do(IF s.pass = "bound" THEN [s EXCEPT !.content = Written(@, cells, x)]
              ELSE Defer(s, ClearEntry(v, aspects, x)), Written(promised, cells, x))
  BY <1>1
<1> DEFINE slots == Attachment(ctx.fb, v)
           writable == \A i \in slots : aspects \subseteq WritableAspects(ctx.fb[i])
           s == IF slots = {} THEN PrepareImage(SuspendRenderPass(ctx), v.image, v.subs, FALSE)
                ELSE IF writable THEN ctx ELSE SuspendRenderPass(ctx)
           cells == CellsOf(v, aspects)
           e == ClearEntry(v, aspects, x)
           r == IF s.pass = "bound" THEN [s EXCEPT !.content = Written(@, cells, x)] ELSE Defer(s, e)
           q == Written(promised, cells, x)
<1>3. ctx' = r /\ promised' = q
  BY <1>2 DEF Do
<1>4. Idle(ctx) /\ Meets(ctx, promised)
  BY DEF ContextInv
<1>5. Idle(s) /\ Meets(s, promised)
  <2> DEFINE c0 == SuspendRenderPass(ctx)
  <2>1. Idle(c0) /\ SameSeen(ctx, c0) /\ c0.pass # "bound"
    BY <1>4, Suspended
  <2>2. Meets(c0, promised)
    BY <1>4, <2>1, StillMeets
  <2> HIDE DEF c0
  <2>3. LET t == PrepareImage(c0, v.image, v.subs, FALSE) IN Idle(t) /\ SameSeen(c0, t)
    BY <2>1, Prepared
  <2>4. LET t == PrepareImage(c0, v.image, v.subs, FALSE) IN Idle(t) /\ Meets(t, promised)
    BY <2>2, <2>3, StillMeets
  <2>5. s = PrepareImage(c0, v.image, v.subs, FALSE) \/ s = ctx \/ s = c0
    BY DEF c0
  <2> HIDE DEF s
  <2> QED
    BY <1>4, <2>1, <2>2, <2>4, <2>5
<1> HIDE DEF s
<1>6. /\ GoodEntry(e)
      /\ \A c \in Cells : /\ Hits(e, c) <=> c \in cells
                          /\ Hits(e, c) => Result(e, c) = x
  BY ClearEntries
<1> HIDE DEF e, cells
<1>7. Idle(r) /\ Meets(r, q)
  <2>1. CASE s.pass = "bound"
    <3>1. s.deferred = <<>> /\ x \in Values \cup {Undef}
      BY <1>5, <2>1 DEF Idle
    <3>2. r = [s EXCEPT !.content = Written(@, cells, x)]
      BY <2>1
    <3> QED
      BY <1>5, <3>1, <3>2, WrittenNow
  <2>2. CASE s.pass # "bound"
    <3>1. x \in Values \cup {Undef}
      OBVIOUS
    <3>2. r = Defer(s, e)
      BY <2>2
    <3> QED
      BY <1>5, <1>6, <2>2, <3>1, <3>2, ClearDeferred
  <2> QED
    BY <2>1, <2>2
<1> HIDE DEF r, q
<1> QED
  BY <1>3, <1>7, InvNext

LEMMA DiscardImageViewStep ==
  ASSUME ContextInv, DiscardImageView
  PROVE  ContextInv'
<1>1. PICK v \in Views : Do(Defer(SuspendRenderPass(ctx), DiscardEntry(v)),
                            Written(promised, CellsOf(v, v.aspects), Undef))
  BY DEF DiscardImageView
<1> DEFINE s == SuspendRenderPass(ctx)
           e == DiscardEntry(v)
           cells == CellsOf(v, v.aspects)
           r == Defer(s, e)
           q == Written(promised, cells, Undef)
<1>2. ctx' = r /\ promised' = q
  BY <1>1 DEF Do
<1>3. Idle(s) /\ SameSeen(ctx, s) /\ s.pass # "bound" /\ Meets(ctx, promised)
  BY Suspended DEF ContextInv
<1>4. Meets(s, promised)
  BY <1>3, StillMeets
<1>5. /\ GoodEntry(e)
      /\ \A c \in Cells : /\ Hits(e, c) <=> c \in cells
                          /\ Hits(e, c) => Result(e, c) = Undef
  BY ClearEntries
<1>6. Undef \in Values \cup {Undef}
  OBVIOUS
<1> HIDE DEF s, e, cells
<1>7. Idle(r) /\ Meets(r, q)
  BY <1>3, <1>4, <1>5, <1>6, ClearDeferred
<1> HIDE DEF r, q
<1> QED
  BY <1>2, <1>7, InvNext

\* A transition of a view that stays in its layout.
LEMMA DefaultBarrier ==
  ASSUME NEW s, Idle(s), s.pass = "none", s.deferred = <<>>, AllDefault(s), NEW v \in Views
  PROVE  LET r == Barriers(s, {Move(v, "default", "default")})
         IN Idle(r) /\ SameSeen(s, r) /\ r.deferred = <<>>
<1> DEFINE moves == {Move(v, "default", "default")}
           r == Barriers(s, moves)
<1>1. /\ GoodContext(s) /\ Tracked(s) /\ DOMAIN s = ContextFields /\ s.ops = <<>>
      /\ s.layout \in [Subresources -> Layouts] /\ s.content \in [Cells -> Values \cup {Undef}]
      /\ \A i \in DOMAIN s.fb : s.rt[i] = "default"
      /\ DOMAIN s.rt = DOMAIN s.fb
  BY DEF Idle, GoodContext
<1>2. SameBut(s, r) /\ r.rt = s.rt /\ r.ops = s.ops /\ r.stray = s.stray
  BY <1>1, BarriersFields
<1>3. GoodView(v) /\ "default" \in Layouts /\ "default" # "undefined"
  BY ViewsAreGood DEF Layouts
<1>4. /\ r.layout \in [Subresources -> Layouts]
      /\ \A x \in Subresources : r.layout[x] = IF x \in Subs(v) THEN "default" ELSE s.layout[x]
      /\ r.content \in [Cells -> Values \cup {Undef}]
      /\ \A c \in Cells : r.content[c] = s.content[c]
      /\ r.valid <=> s.valid /\ \A x \in Subs(v) : "default" \in {"undefined", s.layout[x]}
  BY <1>1, <1>3, ViewMoved
<1> HIDE DEF r
<1>5. GoodContext(r)
  BY <1>1, <1>2, <1>3, <1>4, GoodSame
<1>6. ASSUME ~s.stray
      PROVE  r.valid /\ \A x \in Subresources : r.layout[x] = "default"
  <2>1. s.valid /\ \A x \in Subresources : s.layout[x] = "default"
    BY <1>6 DEF AllDefault
  <2>2. \A x \in Subs(v) : x \in Subresources
    BY <1>3 DEF GoodView
  <2> QED
    BY <1>4, <2>1, <2>2
<1>7. \A i \in DOMAIN r.fb : \A x \in Subs(r.fb[i].view) : x \in Subresources
  BY <1>5, Attachments DEF GoodContext, GoodView
<1>8. Tracked(r)
  BY <1>1, <1>2, <1>6, <1>7 DEF Tracked, SameBut
<1>9. Idle(r)
  BY <1>1, <1>2, <1>5, <1>8 DEF Idle, SameBut
<1>10. SameSeen(s, r)
  BY <1>1, <1>2, <1>4, <1>5, NothingDeferred DEF SameSeen, SameBut
<1> QED
  BY <1>2, <1>9, <1>10 DEF SameBut, r

LEMMA ClearImageViewStep ==
  ASSUME ContextInv, ClearImageView
  PROVE  ContextInv'
<1>1. PICK v \in Views, x \in Values :
        LET s == UpdateFramebuffer(ctx)
            slots == {i \in Attachment(s.fb, v) : v.aspects \subseteq WritableAspects(s.fb[i])}
            cells == CellsOf(v, v.aspects)
            t == IF slots # {} THEN StartRenderPass(s)
                 ELSE Barriers(EndRenderPass(s), {Move(v, "default", "default")})
        IN Do([t EXCEPT !.content = Written(@, cells, x)], Written(promised, cells, x))
  BY DEF ClearImageView
<1> DEFINE s == UpdateFramebuffer(ctx)
           slots == {i \in Attachment(s.fb, v) : v.aspects \subseteq WritableAspects(s.fb[i])}
           cells == CellsOf(v, v.aspects)
           ended == EndRenderPass(s)
           t == IF slots # {} THEN StartRenderPass(s)
                ELSE Barriers(ended, {Move(v, "default", "default")})
           r == [t EXCEPT !.content = Written(@, cells, x)]
           q == Written(promised, cells, x)
<1>2. ctx' = r /\ promised' = q
  BY <1>1 DEF Do
<1>3. Idle(s) /\ SameSeen(ctx, s) /\ Meets(ctx, promised)
  BY FramebufferUpdated DEF ContextInv
<1>4. Meets(s, promised)
  BY <1>3, StillMeets
<1> HIDE DEF s, slots, cells
<1>5. Idle(t) /\ SameSeen(s, t) /\ t.deferred = <<>>
  <2>1. CASE slots # {}
    BY <1>3, <2>1, Started
  <2>2. CASE slots = {}
    <3>1. /\ Idle(ended) /\ SameSeen(s, ended) /\ ended.pass = "none" /\ ended.deferred = <<>>
          /\ AllDefault(ended)
      BY <1>3, Ended
    <3>2. t = Barriers(ended, {Move(v, "default", "default")})
      BY <2>2
    <3> HIDE DEF ended, t
    <3>3. Idle(t) /\ SameSeen(ended, t) /\ t.deferred = <<>>
      BY <3>1, <3>2, DefaultBarrier
    <3> QED
      BY <3>1, <3>3 DEF SameSeen
  <2> QED
    BY <2>1, <2>2
<1> HIDE DEF t
<1>6. Meets(t, promised)
  BY <1>4, <1>5, StillMeets
<1>7. x \in Values \cup {Undef}
  OBVIOUS
<1>8. Idle(r) /\ Meets(r, q)
  BY <1>5, <1>6, <1>7, WrittenNow
<1> HIDE DEF r, q
<1> QED
  BY <1>2, <1>8, InvNext

LEMMA DrawStep ==
  ASSUME ContextInv, Draw
  PROVE  ContextInv'
<1> DEFINE u == UpdateFramebuffer(ctx)
           s == StartRenderPass(u)
           CellsDrawn(slots) ==
             UNION {{s.fb[i].view.image} \X Layers(s.fb[i].view, RenderLayers(s.fb))
                      \X WritableAspects(s.fb[i]) : i \in slots}
<1>1. PICK slots \in SUBSET DOMAIN s.fb, x \in Values :
        Do([s EXCEPT !.content = Written(@, CellsDrawn(slots), x)],
           Written(promised, CellsDrawn(slots), x))
  BY DEF Draw
<1> DEFINE cells == CellsDrawn(slots)
           r == [s EXCEPT !.content = Written(@, cells, x)]
           q == Written(promised, cells, x)
<1>2. ctx' = r /\ promised' = q
  BY <1>1 DEF Do
<1>3. Idle(u) /\ SameSeen(ctx, u) /\ Meets(ctx, promised)
  BY FramebufferUpdated DEF ContextInv
<1>4. Meets(u, promised)
  BY <1>3, StillMeets
<1> HIDE DEF u
<1>5. Idle(s) /\ SameSeen(u, s) /\ s.deferred = <<>>
  BY <1>3, Started
<1> HIDE DEF s
<1>6. Meets(s, promised)
  BY <1>4, <1>5, StillMeets
<1>7. x \in Values \cup {Undef}
  OBVIOUS
<1> HIDE DEF cells
<1>8. Idle(r) /\ Meets(r, q)
  BY <1>5, <1>6, <1>7, WrittenNow
<1> HIDE DEF r, q
<1> QED
  BY <1>2, <1>8, InvNext

LEMMA DispatchStep ==
  ASSUME ContextInv, Dispatch
  PROVE  ContextInv'
<1> DEFINE t == EndRenderPass(ctx)
           s == Used(t, Subresources)
<1>1. PICK dst \in Subresources, src \in Subresources :
        /\ dst[1] = src[1]
        /\ Do([s EXCEPT !.content = Copied(@, dst, src)], Copied(promised, dst, src))
  BY DEF Dispatch
<1> DEFINE r == [s EXCEPT !.content = Copied(@, dst, src)]
           q == Copied(promised, dst, src)
<1>2. ctx' = r /\ promised' = q
  BY <1>1 DEF Do
<1>3. Idle(t) /\ SameSeen(ctx, t) /\ t.deferred = <<>> /\ AllDefault(t) /\ Meets(ctx, promised)
  BY Ended DEF ContextInv
<1>4. Meets(t, promised)
  BY <1>3, StillMeets
<1> HIDE DEF t
<1>5. Deferred(t) = {}
  BY <1>3, NothingDeferred DEF Idle
<1>6. Idle(s) /\ SameSeen(t, s) /\ s.deferred = <<>>
  BY <1>3, <1>5, UsedAsTheyAre DEF AllDefault
<1> HIDE DEF s
<1>7. Meets(s, promised)
  BY <1>4, <1>6, StillMeets
<1>8. Idle(r) /\ Meets(r, q)
  BY <1>1, <1>6, <1>7, CopiedNow
<1> HIDE DEF r, q
<1> QED
  BY <1>2, <1>8, InvNext

\* The clear that a copy of a cleared subresource comes to.
CopiedEntry(e, dst) ==
  [e EXCEPT !.view = [e.view EXCEPT !.image = dst[1], !.subs = {dst[2]}, !.type = "array"],
            !.discard = {}]

LEMMA ClearCopied ==
  ASSUME NEW s, Idle(s), s.pass # "bound", NEW e \in Deferred(s), e.clear = e.view.aspects,
         NEW dst \in Subresources, NEW src \in Subresources, dst[1] = src[1], src \in Subs(e.view),
         NEW p, Meets(s, p)
  PROVE  LET r == Defer(s, CopiedEntry(e, dst))
         IN Idle(r) /\ Meets(r, Copied(p, dst, src))
<1> DEFINE v == [e.view EXCEPT !.image = dst[1], !.subs = {dst[2]}, !.type = "array"]
           f == CopiedEntry(e, dst)
           r == Defer(s, f)
           q == Copied(p, dst, src)
<1>1. GoodContext(s) /\ p \in [Cells -> Values \cup {Undef}]
  BY DEF Idle, Meets
<1>2. GoodEntry(e) /\ GoodView(e.view)
  BY <1>1, DeferredOf DEF GoodEntry
<1>3. /\ DOMAIN v = {"image", "subs", "aspects", "type", "format"}
      /\ v.image = dst[1] /\ v.subs = {dst[2]} /\ v.aspects = e.view.aspects
  BY <1>2 DEF GoodView
<1>4. /\ DOMAIN f = {"view", "discard", "clear", "value"}
      /\ f.view = v /\ f.discard = {} /\ f.clear = e.clear /\ f.value = e.value
  BY <1>2 DEF GoodEntry, CopiedEntry
<1> HIDE DEF v, f
<1>5. Subs(v) = {dst}
  <2>1. dst = <<dst[1], dst[2]>>
    BY DEF Subresources
  <2> QED
    BY <1>3, <2>1 DEF Subs
<1>6. GoodView(v)
  <2>1. src[1] = e.view.image
    BY DEF Subs
  <2>2. \A w \in Views : w.image = v.image => w.aspects = v.aspects
    BY <1>2, <1>3, <2>1 DEF GoodView
  <2> QED
    BY <1>3, <1>5, <2>2 DEF GoodView
<1>7. GoodEntry(f)
  BY <1>2, <1>3, <1>4, <1>6 DEF GoodEntry
<1>8. Idle(r) /\ SeenAfter(s, r, f)
  BY <1>7, DeferredLast
<1>9. /\ q \in [Cells -> Values \cup {Undef}]
      /\ \A c \in Cells : q[c] = IF Place(c) = dst THEN p[<<src[1], src[2], c[3]>>] ELSE p[c]
  BY <1>1, CopyOf
<1> HIDE DEF r, q
<1>10. ASSUME NEW c \in Cells, Place(c) = dst PROVE q[c] \in {Undef, SeenIn(r)[c]}
  <2> DEFINE d == <<src[1], src[2], c[3]>>
  <2>1. d \in Cells /\ Place(d) = src /\ d[3] = c[3]
    BY <1>10, CopiedCell
  <2>2. q[c] = p[d]
    BY <1>9, <1>10
  <2> HIDE DEF d
  <2>3. c[3] \in e.clear /\ Hits(e, d)
    <3>1. d[3] \in e.view.aspects
      BY <1>2, <2>1, AspectsOfPlace
    <3> QED
      BY <2>1, <3>1, CellOfView DEF Hits
  <2>4. SeenIn(s)[d] = Result(e, d)
    BY <1>1, <2>1, <2>3, SeenAt
  <2>5. Hits(f, c)
    BY <1>4, <1>5, <1>10, <2>3, CellOfView DEF Hits
  <2>6. SeenIn(r)[c] = Result(f, c)
    BY <1>8, <2>5 DEF SeenAfter
  <2>7. Result(f, c) = Result(e, d)
    BY <1>4, <2>1, <2>3 DEF Result
  <2> QED
    BY <2>1, <2>2, <2>4, <2>6, <2>7 DEF Meets
<1>11. ASSUME NEW c \in Cells, Place(c) # dst PROVE q[c] \in {Undef, SeenIn(r)[c]}
  <2>1. ~Hits(f, c)
    BY <1>4, <1>5, <1>11, HitPlace
  <2> QED
    BY <1>8, <1>9, <1>11, <2>1 DEF SeenAfter, Meets
<1>12. Meets(r, q)
  BY <1>9, <1>10, <1>11 DEF Meets
<1> QED
  BY <1>8, <1>12 DEF r, q, f

\* One subresource is made ready for a command.
LEMMA PreparedFor ==
  ASSUME NEW s, Idle(s), s.pass # "bound", NEW dst \in Subresources
  PROVE  LET r == PrepareImage(s, dst[1], {dst[2]}, TRUE)
         IN  /\ Idle(r) /\ SameSeen(s, r) /\ r.pass # "bound" /\ r.deferred = <<>>
             /\ s.deferred = <<>> => r.stray = s.stray
             /\ ~r.stray =>
                  /\ r.layout[dst] = "default"
                  /\ \A x \in Subresources :
                       s.deferred = <<>> /\ s.layout[x] = "default" => r.layout[x] = "default"
<1> DEFINE image == dst[1]
           subs == {dst[2]}
           r == PrepareImage(s, image, subs, TRUE)
<1>1. dst \in {image} \X subs
  BY DEF Subresources
<1> HIDE DEF image, subs
<1>2. /\ Idle(r) /\ SameSeen(s, r) /\ r.pass # "bound" /\ r.fb = s.fb
      /\ TRUE => r.deferred = <<>>
      /\ s.deferred = <<>> => r.stray = s.stray
      /\ ~r.stray => \A x \in Subresources :
           /\ x \in {image} \X subs => r.layout[x] = "default"
           /\ s.deferred = <<>> /\ s.layout[x] = "default" => r.layout[x] = "default"
  BY Prepared
<1> HIDE DEF r
<1>3. /\ Idle(r) /\ SameSeen(s, r) /\ r.pass # "bound" /\ r.deferred = <<>>
      /\ s.deferred = <<>> => r.stray = s.stray
      /\ ~r.stray =>
           /\ r.layout[dst] = "default"
           /\ \A x \in Subresources :
                s.deferred = <<>> /\ s.layout[x] = "default" => r.layout[x] = "default"
  BY <1>1, <1>2
<1> QED
  BY <1>3 DEF r, image, subs

LEMMA CopyImageStep ==
  ASSUME ContextInv, CopyImage
  PROVE  ContextInv'
<1> DEFINE s == SuspendRenderPass(ctx)
           Dst(dst) == PrepareImage(s, dst[1], {dst[2]}, TRUE)
           Both(dst, src) == PrepareImage(Dst(dst), src[1], {src[2]}, TRUE)
<1>1. PICK dst \in Subresources, src \in Subresources :
        /\ dst[1] = src[1]
        /\ \/ Do([Used(Both(dst, src), {dst, src}) EXCEPT !.content = Copied(@, dst, src)],
                 Copied(promised, dst, src))
           \/ \E e \in Deferred(s) :
                /\ src \in Subs(e.view) /\ e.clear = e.view.aspects
                /\ Do(Defer(s, CopiedEntry(e, dst)), Copied(promised, dst, src))
  BY DEF CopyImage, CopiedEntry
<1> DEFINE t1 == Dst(dst)
           t2 == PrepareImage(t1, src[1], {src[2]}, TRUE)
           u == Used(t2, {dst, src})
           r == [u EXCEPT !.content = Copied(@, dst, src)]
           q == Copied(promised, dst, src)
<1>2. Idle(s) /\ SameSeen(ctx, s) /\ s.pass # "bound" /\ Meets(ctx, promised)
  BY Suspended DEF ContextInv
<1>3. Meets(s, promised)
  BY <1>2, StillMeets
<1> HIDE DEF s
<1>4. CASE Do(r, q)
  <2>1. ctx' = r /\ promised' = q
    BY <1>4 DEF Do
  <2>2. /\ Idle(t1) /\ SameSeen(s, t1) /\ t1.pass # "bound" /\ t1.deferred = <<>>
        /\ ~t1.stray => t1.layout[dst] = "default"
    BY <1>2, PreparedFor
  <2> HIDE DEF t1
  <2>3. /\ Idle(t2) /\ SameSeen(t1, t2) /\ t2.deferred = <<>> /\ t2.stray = t1.stray
        /\ ~t2.stray => /\ t2.layout[src] = "default"
                        /\ t1.layout[dst] = "default" => t2.layout[dst] = "default"
    BY <2>2, PreparedFor
  <2> HIDE DEF t2
  <2>4. Meets(t2, promised)
    BY <1>3, <2>2, <2>3, StillMeets
  <2>5. Deferred(t2) = {}
    BY <2>3, NothingDeferred DEF Idle
  <2>6. ~t2.stray => \A x \in {dst, src} : t2.layout[x] = "default"
    BY <2>2, <2>3
  <2>7. Idle(u) /\ SameSeen(t2, u) /\ u.deferred = <<>>
    BY <2>3, <2>5, <2>6, UsedAsTheyAre
  <2> HIDE DEF u
  <2>8. Meets(u, promised)
    BY <2>4, <2>7, StillMeets
  <2>9. Idle(r) /\ Meets(r, q)
    BY <1>1, <2>7, <2>8, CopiedNow
  <2> HIDE DEF r, q
  <2> QED
    BY <2>1, <2>9, InvNext
<1>5. CASE \E e \in Deferred(s) : /\ src \in Subs(e.view) /\ e.clear = e.view.aspects
                                  /\ Do(Defer(s, CopiedEntry(e, dst)), q)
  <2>1. PICK e \in Deferred(s) : /\ src \in Subs(e.view) /\ e.clear = e.view.aspects
                                 /\ Do(Defer(s, CopiedEntry(e, dst)), q)
    BY <1>5
  <2> DEFINE w == Defer(s, CopiedEntry(e, dst))
  <2>2. Idle(w) /\ Meets(w, q)
    BY <1>1, <1>2, <1>3, <2>1, ClearCopied
  <2>3. ctx' = w /\ promised' = q
    BY <2>1 DEF Do
  <2> HIDE DEF w, q
  <2> QED
    BY <2>2, <2>3, InvNext
<1> QED
  BY <1>1, <1>4, <1>5

LEMMA UploadImageStep ==
  ASSUME ContextInv, UploadImage
  PROVE  ContextInv'
<1> DEFINE s == SuspendRenderPass(ctx)
           Dst(dst) == PrepareImage(s, dst[1], {dst[2]}, TRUE)
           CellsAt(dst) == {c \in Cells : <<c[1], c[2]>> = dst}
<1>1. PICK dst \in Subresources, x \in Values :
        Do([Used(Dst(dst), {dst}) EXCEPT !.content = Written(@, CellsAt(dst), x)],
           Written(promised, CellsAt(dst), x))
  BY DEF UploadImage
<1> DEFINE t == Dst(dst)
           u == Used(t, {dst})
           cells == CellsAt(dst)
           r == [u EXCEPT !.content = Written(@, cells, x)]
           q == Written(promised, cells, x)
<1>2. ctx' = r /\ promised' = q
  BY <1>1 DEF Do
<1>3. Idle(s) /\ SameSeen(ctx, s) /\ s.pass # "bound" /\ Meets(ctx, promised)
  BY Suspended DEF ContextInv
<1>4. Meets(s, promised)
  BY <1>3, StillMeets
<1> HIDE DEF s
<1>5. /\ Idle(t) /\ SameSeen(s, t) /\ t.deferred = <<>>
      /\ ~t.stray => t.layout[dst] = "default"
  BY <1>3, PreparedFor
<1> HIDE DEF t, cells
<1>6. Meets(t, promised)
  BY <1>4, <1>5, StillMeets
<1>7. Deferred(t) = {}
  BY <1>5, NothingDeferred DEF Idle
<1>8. Idle(u) /\ SameSeen(t, u) /\ u.deferred = <<>>
  BY <1>5, <1>7, UsedAsTheyAre
<1> HIDE DEF u
<1>9. Meets(u, promised) /\ x \in Values \cup {Undef}
  BY <1>6, <1>8, StillMeets
<1>10. Idle(r) /\ Meets(r, q)
  BY <1>8, <1>9, WrittenNow
<1> HIDE DEF r, q
<1> QED
  BY <1>2, <1>10, InvNext

LEMMA SuspendStep ==
  ASSUME ContextInv, Suspend
  PROVE  ContextInv'
<1>1. ctx' = SuspendRenderPass(ctx) /\ promised' = promised
  BY DEF Suspend
<1>2. /\ Idle(SuspendRenderPass(ctx)) /\ SameSeen(ctx, SuspendRenderPass(ctx))
      /\ Meets(ctx, promised)
  BY Suspended DEF ContextInv
<1>3. Meets(SuspendRenderPass(ctx), promised)
  BY <1>2, StillMeets
<1> QED
  BY <1>1, <1>2, <1>3, InvNext

\* The framebuffer is set up anew by the next draw.
LEMMA MadeDirty ==
  ASSUME NEW s, Idle(s)
  PROVE  LET r == [s EXCEPT !.dirty = TRUE] IN Idle(r) /\ SameSeen(s, r)
<1> DEFINE r == [s EXCEPT !.dirty = TRUE]
<1>1. GoodContext(s) /\ Tracked(s) /\ DOMAIN s = ContextFields
  BY DEF Idle, GoodContext
<1>2. /\ DOMAIN r = ContextFields /\ r.pass = s.pass /\ r.targets = s.targets
      /\ r.fb = s.fb /\ r.rt = s.rt /\ r.ops = s.ops
      /\ r.deferred = s.deferred /\ r.content = s.content /\ r.layout = s.layout
      /\ r.valid = s.valid /\ r.stray = s.stray
  BY <1>1 DEF ContextFields
<1> HIDE DEF r
<1>3. GoodContext(r) /\ Tracked(r)
  BY <1>1, <1>2 DEF GoodContext, Tracked
<1>4. Idle(r) /\ SameSeen(s, r)
  BY <1>2, <1>3 DEF Idle, SameSeen, SeenIn, Deferred
<1> QED
  BY <1>4 DEF r

LEMMA FlushStep ==
  ASSUME ContextInv, Flush
  PROVE  ContextInv'
<1> DEFINE s == SuspendRenderPass(ctx)
           t == PerformClears(s, Shared, FALSE)
           slots == {i \in DOMAIN t.fb : t.fb[i].view.image \in Shared}
           u == ToDefault(t, slots)
           xs == {x \in Subresources : x[1] \in Shared}
           w == Used(u, xs)
           r == [w EXCEPT !.dirty = TRUE]
<1>1. ctx' = r /\ promised' = promised
  BY DEF Flush, Do
<1>2. Idle(s) /\ SameSeen(ctx, s) /\ s.pass # "bound" /\ Meets(ctx, promised)
  BY Suspended DEF ContextInv
<1> HIDE DEF s
<1>3. GoodContext(s) /\ Tracked(s) /\ s.ops = <<>>
  BY <1>2 DEF Idle
<1>4. /\ GoodContext(t) /\ t.pass = s.pass /\ t.fb = s.fb /\ t.rt = s.rt /\ t.ops = <<>>
      /\ Tracked(t)
      /\ \A e : e \in Deferred(t) <=> e \in Deferred(s) /\ e.view.image \notin Shared
      /\ SameSeen(s, t)
  BY <1>3, SomeCleared
<1> HIDE DEF t
<1>5. slots \in SUBSET DOMAIN t.fb
  OBVIOUS
<1>6. \A i \in DOMAIN t.fb \ slots : t.fb[i].view.image \notin Shared
  OBVIOUS
<1> HIDE DEF slots
<1>7. /\ SameBut(t, u) /\ u.ops = <<>> /\ u.stray = t.stray /\ u.content = t.content
      /\ GoodContext(u) /\ Tracked(u)
      /\ \A i \in DOMAIN t.fb : u.rt[i] = IF i \in slots THEN "default" ELSE t.rt[i]
  BY <1>4, <1>5, ToDefaultMoves
<1> HIDE DEF u
<1>8. Idle(u)
  BY <1>2, <1>4, <1>7 DEF Idle, SameBut
<1>9. SameSeen(s, u)
  <2>1. SeenIn(u) = SeenIn(t)
    BY <1>7 DEF SeenIn, Deferred, SameBut
  <2> QED
    BY <1>4, <2>1 DEF SameSeen
<1>10. Deferred(u) = Deferred(t)
  BY <1>7 DEF Deferred, SameBut
<1>11. ASSUME NEW e \in Deferred(u), NEW x \in Subs(e.view), x \in xs PROVE FALSE
  <2>1. x[1] = e.view.image
    BY DEF Subs
  <2> QED
    BY <1>4, <1>10, <1>11, <2>1
<1>12. ASSUME ~u.stray, NEW x \in xs PROVE u.layout[x] = "default"
  <2>1. \/ u.layout[x] = "default"
        \/ \E i \in DOMAIN u.fb : x \in Subs(u.fb[i].view) /\ u.layout[x] = u.rt[i]
    BY <1>7, <1>12, Tracks
  <2>2. ASSUME NEW i \in DOMAIN t.fb, x \in Subs(t.fb[i].view) PROVE i \in slots
    BY <1>6, <2>2 DEF Subs
  <2> QED
    BY <1>7, <2>1, <2>2 DEF SameBut
<1> HIDE DEF xs
<1>13. Idle(w) /\ SameSeen(u, w)
  <2>1. \A e \in Deferred(u) : Subs(e.view) \cap xs = {}
    BY <1>11
  <2> QED
    BY <1>8, <1>12, <2>1, UsedAsTheyAre
<1> HIDE DEF w
<1>14. Idle(r) /\ SameSeen(w, r)
  BY <1>13, MadeDirty
<1> HIDE DEF r
<1>15. SameSeen(ctx, r)
  BY <1>2, <1>9, <1>13, <1>14 DEF SameSeen
<1>16. Meets(r, promised)
  BY <1>2, <1>15, StillMeets
<1> QED
  BY <1>1, <1>14, <1>16, InvNext

-----------------------------------------------------------------------------
LEMMA ContextInitInv ==
  ASSUME ContextInit
  PROVE  ContextInv
<1> DEFINE s == ctx
<1>1. /\ DOMAIN s = ContextFields /\ s.pass = "none" /\ s.targets = <<>> /\ s.fb = <<>>
      /\ s.rt = <<>> /\ s.ops = <<>> /\ s.deferred = <<>>
      /\ s.content = [c \in Cells |-> Undef] /\ s.layout = [x \in Subresources |-> "default"]
      /\ s.valid
  BY DEF ContextInit, ContextFields
<1>2. promised = [c \in Cells |-> Undef]
  BY DEF ContextInit
<1>3. DOMAIN <<>> = {}
  OBVIOUS
<1> HIDE DEF s
<1>4. GoodClears(s.deferred)
  BY <1>1, NoClears
<1>5. /\ s.content \in [Cells -> Values \cup {Undef}] /\ s.layout \in [Subresources -> Layouts]
      /\ \A c \in Cells : s.content[c] = Undef
      /\ \A x \in Subresources : s.layout[x] = "default"
  BY <1>1 DEF Layouts
<1>6. GoodContext(s)
  BY <1>1, <1>3, <1>4, <1>5 DEF GoodContext
<1>7. Tracked(s)
  BY <1>1, <1>3, <1>5 DEF Tracked
<1>8. Idle(s)
  BY <1>1, <1>3, <1>6, <1>7 DEF Idle
<1>9. Meets(s, promised)
  BY <1>1, <1>2, <1>5, <1>6, NothingDeferred DEF Meets
<1> QED
  BY <1>8, <1>9 DEF ContextInv, s

LEMMA ContextNextInv ==
  ASSUME ContextInv, [ContextNext]_renderVars
  PROVE  ContextInv'
<1>1. CASE UNCHANGED renderVars
  <2>1. ctx' = ctx /\ promised' = promised
    BY <1>1 DEF renderVars
  <2> QED
    BY <2>1, InvNext DEF ContextInv
<1>2. CASE BindRenderTargets
  BY <1>2, BindRenderTargetsStep
<1>3. CASE ClearRenderTarget
  BY <1>3, ClearRenderTargetStep
<1>4. CASE DiscardImageView
  BY <1>4, DiscardImageViewStep
<1>5. CASE ClearImageView
  BY <1>5, ClearImageViewStep
<1>6. CASE Draw
  BY <1>6, DrawStep
<1>7. CASE Dispatch
  BY <1>7, DispatchStep
<1>8. CASE CopyImage
  BY <1>8, CopyImageStep
<1>9. CASE UploadImage
  BY <1>9, UploadImageStep
<1>10. CASE Suspend
  BY <1>10, SuspendStep
<1>11. CASE Flush
  BY <1>11, FlushStep
<1> QED
  BY <1>1, <1>2, <1>3, <1>4, <1>5, <1>6, <1>7, <1>8, <1>9, <1>10, <1>11 DEF ContextNext

LEMMA ContextInvariant == ContextSpec => []ContextInv
<1>1. ContextInit => ContextInv
  BY ContextInitInv
<1>2. ContextInv /\ [ContextNext]_renderVars => ContextInv'
  BY ContextNextInv
<1> QED
  BY <1>1, <1>2, PTL DEF ContextSpec

\* However clears are deferred, merged, folded into a render pass or copied by DxvkContext, an
\* image holds what the calls would have written one by one, in their order, once the clears that
\* are deferred are executed; those do not overlap, and none waits while a render pass is bound.
THEOREM ContentsFollowCalls == ContextSpec => []ContentsInOrder
<1>1. ContextInv => ContentsInOrder
  <2> SUFFICES ASSUME ContextInv PROVE ContentsInOrder
    OBVIOUS
  <2>1. Idle(ctx) /\ Meets(ctx, promised) /\ GoodContext(ctx)
    BY DEF ContextInv, Idle
  <2>2. ContextTypeOK
    BY <2>1 DEF ContextTypeOK, Idle, GoodContext, Meets
  <2>3. \A c \in Cells : promised[c] \in {Undef, Seen[c]}
    BY <2>1 DEF Meets, Seen, SeenIn
  <2>4. \A j, k \in DOMAIN ctx.deferred :
          j # k => ~Overlap(ctx.deferred[j].view, ctx.deferred[k].view)
    BY <2>1 DEF GoodContext, GoodClears
  <2>5. ctx.pass = "bound" => ctx.deferred = <<>>
    BY <2>1 DEF Idle
  <2> QED
    BY <2>2, <2>3, <2>4, <2>5 DEF ContentsInOrder
<1> QED
  BY <1>1, ContextInvariant, PTL

\* m_rtLayouts has the layout of every attachment at all times, so that no barrier, render pass or
\* command of DxvkContext finds an image in another layout than it names, until a clear outside
\* the render pass is executed that overlaps an attachment in another view.
THEOREM AttachmentLayouts == ContextSpec => []LayoutsTracked
<1>1. ContextInv => LayoutsTracked
  BY DEF ContextInv, Idle, Tracked, LayoutsTracked
<1> QED
  BY <1>1, ContextInvariant, PTL
=============================================================================
