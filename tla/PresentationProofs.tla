------------------------ MODULE PresentationProofs ------------------------
(***************************************************************************)
(* Theorems about Presentation, for any number of calls of Present, any      *)
(* sync intervals and latencies, and any number of faults.                   *)
(*                                                                         *)
(* Frames are numbered, and pass the CS chunks, the two queues of the        *)
(* submission queue and the frame thread's queue before the frame signal has *)
(* their number: the numbers of all that are on their way are consecutive.   *)
(***************************************************************************)
EXTENDS Presentation, SequenceTheorems, WellFoundedInduction, TLAPS

Pcs == {"idle", "check", "sync", "image", "submit", "recreate", "destroy", "create", "latency",
        "callback", "insert", "close", "join", "gone", "thrown"}

FrameRecords == [id : Frames, result : Results]

CallbackRecords == [n : Calls, frame : Frames]

AppType ==
  /\ pc \in Pcs /\ ret \in {"check", "sync", "image"}
  /\ call \in [n : 0 .. MaxCalls, interval : Nat, repeat : Nat, dirty : BOOLEAN, test : BOOLEAN]
  /\ frameId \in Frames

PresenterType ==
  /\ chain \in BOOLEAN /\ acquire \in {"not ready", "ok", "error"} /\ lastFrame \in Frames
  /\ frameQueue \in Seq(FrameRecords)
  /\ frame \in [pc : {"idle", "wait", "done", "signal", "gone"}, id : Frames]

QueueType ==
  /\ csQueue \in Seq(Frames) /\ submitQueue \in Seq(Frames) /\ finishQueue \in Seq(FrameRecords)
  /\ submitter \in [pc : {"idle", "present", "write", "forward"}, result : Results]
  /\ finisher \in {"idle", "signal", "store", "pop"}
  /\ status \in Results \cup {"not ready"} /\ lastError \in BOOLEAN

FenceType ==
  /\ value \in Frames /\ presentCount \in Frames
  /\ callbacks \subseteq CallbackRecords /\ fired \in [Calls -> Nat]

TypeInv == AppType /\ PresenterType /\ QueueType /\ FenceType

-----------------------------------------------------------------------------
(* One present at a time                                                   *)

\* The submit thread's result is still to be published for these presents.
Unpublished == Len(csQueue) + Len(submitQueue) - (IF submitter.pc = "forward" THEN 1 ELSE 0)

\* A present is on its way to Presenter::presentImage, or about to be submitted.
Unpresented == (status = "not ready" /\ submitter.pc # "write") \/ pc = "submit"

FlowInv ==
  /\ Unpublished = IF status = "not ready" THEN 1 ELSE 0
  /\ submitter.pc # "idle" => submitQueue # <<>>
  /\ submitter.pc = "present" => submitter.result = "success"
  /\ finisher # "idle" => finishQueue # <<>>
  /\ pc \in {"image", "submit"} => status # "not ready"
  /\ pc \in {"destroy", "create", "close", "join", "gone"} =>
       status # "not ready" /\ submitQueue = <<>> /\ finishQueue = <<>>
  /\ Unpresented => chain /\ acquire = "ok"
  /\ ~chain => status # "not ready" /\ submitQueue = <<>> /\ finishQueue = <<>> /\ lastFrame = value

-----------------------------------------------------------------------------
(* Numbers of frames                                                       *)

\* The frames of a queue; a repeat, and what ends the frame thread, is 0.
Ids(q) == {q[i] : i \in 1 .. Len(q)} \ {0}

FrameIds(q) == {q[i].id : i \in 1 .. Len(q)} \ {0}

\* Later ones have larger numbers.
Rising(q) == \A i, j \in 1 .. Len(q) : i < j /\ q[i] # 0 /\ q[j] # 0 => q[i] < q[j]

FramesRising(q) ==
  \A i, j \in 1 .. Len(q) : i < j /\ q[i].id # 0 /\ q[j].id # 0 => q[i].id < q[j].id

Below(A, B) == \A a \in A, b \in B : a < b

\* No number is left out between n and those of A.
Gapless(n, A) == \A a \in A : n < a /\ \A m \in n + 1 .. a : m \in A

\* The last frame that the finish thread has signalled or handed to the frame thread.
Last == IF finisher \in {"signal", "store"} THEN Head(finishQueue).id ELSE lastFrame

\* The entries that the finish thread has still to look at.
Waiting == IF finisher = "idle" THEN finishQueue ELSE Tail(finishQueue)

\* The frame that the frame thread is working on.
Current == IF frame.pc \in {"wait", "done"} THEN {frame.id} ELSE {}

\* The result of the submit thread's entry is that the device is lost.
Doomed == submitter.pc \in {"write", "forward"} /\ submitter.result = "lost"

\* The first entry of the submission queue, if it will be handed on.
Handed ==
  IF submitter.pc # "idle" /\ submitter.result # "lost" THEN {Head(submitQueue)} \ {0} ELSE {}

\* Of the frames on their way, those of W are before those of S, and those before those of C;
\* none is left out between the last one, L, and those that the finish thread sees.
Passing(L, W, H, S, C, n) ==
  /\ Below(W, S) /\ Below(W, C) /\ Below(S, C)
  /\ Below({L}, W \cup S \cup C) /\ Below(W \cup S \cup C, {n + 1})
  /\ Gapless(L, W) /\ Gapless(L, W \cup H)
  /\ L <= n

\* Unless the device is lost, none is left out at all.
Whole(L, W, S, C, n) == W \cup S \cup C = L + 1 .. n

\* Between the value of the frame signal and the last frame are those of the frame thread.
Signalled(v, L, K, F) == v <= L /\ Below(K, F) /\ K \cup F = v + 1 .. L

NumberInv ==
  /\ Rising(csQueue) /\ Rising(submitQueue) /\ FramesRising(Waiting) /\ FramesRising(frameQueue)
  /\ Passing(Last, FrameIds(Waiting), Handed, Ids(submitQueue), Ids(csQueue), frameId)
  /\ ~lastError /\ ~Doomed =>
       Whole(Last, FrameIds(Waiting), Ids(submitQueue), Ids(csQueue), frameId)
  /\ Signalled(value, Last, Current, FrameIds(frameQueue))
  /\ ~config.wait => frame.pc = "idle" /\ value = Last
  /\ finisher = "signal" => ~config.wait

-----------------------------------------------------------------------------
(* Calls and callbacks                                                     *)

\* A call of Present has not returned, or an exception has ended it.
Running == pc \notin {"idle", "close", "join", "gone"}

\* The call has to present its frame still.
Unnumbered ==
  call.repeat = 0 /\ pc \in {"check", "sync", "image", "submit", "recreate", "destroy", "create"}

CallInv ==
  /\ frameId <= call.n
  /\ Unnumbered => frameId < call.n
  /\ Running => call.n \in Calls

CallbackInv ==
  /\ \A c \in callbacks : c.n <= call.n /\ c.frame <= frameId /\ value <= c.frame
  /\ \A c \in callbacks : c.frame = value => Signalling
  /\ \A c, d \in callbacks : c.n = d.n => c = d
  /\ \A n \in Calls : fired[n] <= 1
  /\ \A c \in callbacks : fired[c.n] = 0
  /\ \A n \in Calls : n > call.n => fired[n] = 0
  /\ Running => fired[call.n] = 0 /\ \A c \in callbacks : c.n # call.n
  /\ presentCount <= value

IInv == TypeInv /\ FlowInv /\ NumberInv /\ CallInv /\ CallbackInv

-----------------------------------------------------------------------------
(* Queues                                                                  *)

LEMMA TailIds ==
  ASSUME NEW q \in Seq(Frames), q # <<>>
  PROVE  /\ Tail(q) \in Seq(Frames) /\ Head(q) \in Frames /\ Len(Tail(q)) = Len(q) - 1
         /\ Ids(q) = Ids(Tail(q)) \cup ({Head(q)} \ {0})
         /\ Rising(q) => Rising(Tail(q)) /\ (Head(q) # 0 => Below({Head(q)}, Ids(Tail(q))))
<1>1. PICK n \in Nat : Len(q) = n + 1
  <2>1. Len(q) \in Nat /\ Len(q) > 0
    OBVIOUS
  <2>2. Len(q) - 1 \in Nat /\ Len(q) = (Len(q) - 1) + 1
    BY <2>1
  <2>. QED
    BY <2>2
<1>. DEFINE t == Tail(q)
<1>2. /\ t \in Seq(Frames) /\ Len(t) = n /\ \A i \in 1 .. n : t[i] = q[i + 1]
      /\ Head(q) = q[1] /\ q[1] \in Frames
  BY <1>1
<1>. HIDE DEF t
<1>3. \A k \in 1 .. n + 1 : k = 1 \/ \E i \in 1 .. n : k = i + 1
  <2>1. TAKE k \in 1 .. n + 1
  <2>2. k # 1 => k - 1 \in 1 .. n /\ k = (k - 1) + 1
    OBVIOUS
  <2>. QED
    BY <2>2
<1>4. \A i \in 1 .. n : i + 1 \in 1 .. n + 1
  OBVIOUS
<1>5. Ids(q) = Ids(t) \cup ({q[1]} \ {0})
  <2>1. 1 \in 1 .. n + 1
    OBVIOUS
  <2>2. ASSUME NEW x \in Ids(q) PROVE x \in Ids(t) \/ x = q[1]
    <3>1. PICK k \in 1 .. n + 1 : x = q[k] /\ x # 0
      BY <1>1 DEF Ids
    <3>2. CASE k = 1
      BY <3>1, <3>2
    <3>3. CASE \E i \in 1 .. n : k = i + 1
      BY <3>1, <3>3, <1>2 DEF Ids
    <3>. QED
      BY <3>2, <3>3, <1>3
  <2>3. ASSUME NEW x \in Ids(t) PROVE x \in Ids(q)
    <3>1. PICK i \in 1 .. n : x = t[i] /\ x # 0
      BY <1>2 DEF Ids
    <3>. QED
      BY <3>1, <1>1, <1>2, <1>4 DEF Ids
  <2>4. q[1] # 0 => q[1] \in Ids(q)
    BY <2>1, <1>1 DEF Ids
  <2>5. 0 \notin Ids(q) /\ 0 \notin Ids(t)
    BY DEF Ids
  <2>. QED
    BY <2>2, <2>3, <2>4, <2>5
<1>6. ASSUME Rising(q) PROVE Rising(t)
  <2>1. SUFFICES ASSUME NEW i \in 1 .. n, NEW j \in 1 .. n, i < j, t[i] # 0, t[j] # 0
                 PROVE  t[i] < t[j]
    BY <1>2 DEF Rising
  <2>2. i + 1 \in 1 .. n + 1 /\ j + 1 \in 1 .. n + 1 /\ i + 1 < j + 1
    BY <2>1
  <2>. QED
    BY <2>1, <2>2, <1>1, <1>2, <1>6 DEF Rising
<1>7. ASSUME Rising(q), q[1] # 0 PROVE Below({q[1]}, Ids(t))
  <2>1. SUFFICES ASSUME NEW i \in 1 .. n, t[i] # 0 PROVE q[1] < t[i]
    BY <1>2 DEF Below, Ids
  <2>2. i + 1 \in 1 .. n + 1 /\ 1 < i + 1 /\ 1 \in 1 .. n + 1
    OBVIOUS
  <2>. QED
    BY <2>1, <2>2, <1>1, <1>2, <1>7 DEF Rising
<1>8. Len(t) = Len(q) - 1
  BY <1>1, <1>2
<1>. QED
  BY <1>2, <1>5, <1>6, <1>7, <1>8 DEF t

LEMMA AppendIds ==
  ASSUME NEW q \in Seq(Frames), NEW x \in Frames
  PROVE  /\ Append(q, x) \in Seq(Frames) /\ Len(Append(q, x)) = Len(q) + 1
         /\ Ids(Append(q, x)) = Ids(q) \cup ({x} \ {0})
         /\ Rising(q) /\ (x # 0 => Below(Ids(q), {x})) => Rising(Append(q, x))
         /\ q # <<>> => Head(Append(q, x)) = Head(q) /\ Tail(Append(q, x)) = Append(Tail(q), x)
<1>1. PICK n \in Nat : Len(q) = n
  OBVIOUS
<1>. DEFINE r == Append(q, x)
<1>2. r \in Seq(Frames) /\ Len(r) = n + 1 /\ r[n + 1] = x /\ \A i \in 1 .. n : r[i] = q[i]
  BY <1>1
<1>3. q # <<>> => Head(r) = Head(q) /\ Tail(r) = Append(Tail(q), x)
  BY HeadTailAppend
<1>. HIDE DEF r
<1>4. \A k \in 1 .. n + 1 : k = n + 1 \/ k \in 1 .. n
  OBVIOUS
<1>5. n + 1 \in 1 .. n + 1 /\ \A k \in 1 .. n : k \in 1 .. n + 1
  OBVIOUS
<1>6. Ids(r) = Ids(q) \cup ({x} \ {0})
  BY <1>1, <1>2, <1>4, <1>5 DEF Ids
<1>7. ASSUME Rising(q), x # 0 => Below(Ids(q), {x}) PROVE Rising(r)
  <2>1. SUFFICES ASSUME NEW i \in 1 .. n + 1, NEW j \in 1 .. n + 1, i < j, r[i] # 0, r[j] # 0
                 PROVE  r[i] < r[j]
    BY <1>2 DEF Rising
  <2>2. i \in 1 .. n
    BY <2>1
  <2>3. CASE j \in 1 .. n
    BY <2>1, <2>2, <2>3, <1>1, <1>2, <1>7 DEF Rising
  <2>4. CASE j = n + 1
    <3>1. q[i] \in Ids(q) /\ r[i] = q[i] /\ r[j] = x
      BY <2>1, <2>2, <2>4, <1>1, <1>2 DEF Ids
    <3>. QED
      BY <3>1, <2>1, <1>7 DEF Below
  <2>. QED
    BY <2>3, <2>4, <1>4
<1>. QED
  BY <1>1, <1>2, <1>3, <1>6, <1>7 DEF r

LEMMA TailFrames ==
  ASSUME NEW q \in Seq(FrameRecords), q # <<>>
  PROVE  /\ Tail(q) \in Seq(FrameRecords) /\ Head(q) \in FrameRecords /\ Len(Tail(q)) = Len(q) - 1
         /\ FrameIds(q) = FrameIds(Tail(q)) \cup ({Head(q).id} \ {0})
         /\ FramesRising(q) => FramesRising(Tail(q)) /\ (Head(q).id # 0 => Below({Head(q).id}, FrameIds(Tail(q))))
<1>1. PICK n \in Nat : Len(q) = n + 1
  <2>1. Len(q) \in Nat /\ Len(q) > 0
    OBVIOUS
  <2>2. Len(q) - 1 \in Nat /\ Len(q) = (Len(q) - 1) + 1
    BY <2>1
  <2>. QED
    BY <2>2
<1>. DEFINE t == Tail(q)
<1>2. /\ t \in Seq(FrameRecords) /\ Len(t) = n /\ \A i \in 1 .. n : t[i] = q[i + 1]
      /\ Head(q) = q[1] /\ q[1] \in FrameRecords
  BY <1>1
<1>. HIDE DEF t
<1>3. \A k \in 1 .. n + 1 : k = 1 \/ \E i \in 1 .. n : k = i + 1
  <2>1. TAKE k \in 1 .. n + 1
  <2>2. k # 1 => k - 1 \in 1 .. n /\ k = (k - 1) + 1
    OBVIOUS
  <2>. QED
    BY <2>2
<1>4. \A i \in 1 .. n : i + 1 \in 1 .. n + 1
  OBVIOUS
<1>5. FrameIds(q) = FrameIds(t) \cup ({q[1].id} \ {0})
  <2>1. 1 \in 1 .. n + 1
    OBVIOUS
  <2>2. ASSUME NEW x \in FrameIds(q) PROVE x \in FrameIds(t) \/ x = q[1].id
    <3>1. PICK k \in 1 .. n + 1 : x = q[k].id /\ x # 0
      BY <1>1 DEF FrameIds
    <3>2. CASE k = 1
      BY <3>1, <3>2
    <3>3. CASE \E i \in 1 .. n : k = i + 1
      BY <3>1, <3>3, <1>2 DEF FrameIds
    <3>. QED
      BY <3>2, <3>3, <1>3
  <2>3. ASSUME NEW x \in FrameIds(t) PROVE x \in FrameIds(q)
    <3>1. PICK i \in 1 .. n : x = t[i].id /\ x # 0
      BY <1>2 DEF FrameIds
    <3>. QED
      BY <3>1, <1>1, <1>2, <1>4 DEF FrameIds
  <2>4. q[1].id # 0 => q[1].id \in FrameIds(q)
    BY <2>1, <1>1 DEF FrameIds
  <2>5. 0 \notin FrameIds(q) /\ 0 \notin FrameIds(t)
    BY DEF FrameIds
  <2>. QED
    BY <2>2, <2>3, <2>4, <2>5
<1>6. ASSUME FramesRising(q) PROVE FramesRising(t)
  <2>1. SUFFICES ASSUME NEW i \in 1 .. n, NEW j \in 1 .. n, i < j, t[i].id # 0, t[j].id # 0
                 PROVE  t[i].id < t[j].id
    BY <1>2 DEF FramesRising
  <2>2. i + 1 \in 1 .. n + 1 /\ j + 1 \in 1 .. n + 1 /\ i + 1 < j + 1
    BY <2>1
  <2>. QED
    BY <2>1, <2>2, <1>1, <1>2, <1>6 DEF FramesRising
<1>7. ASSUME FramesRising(q), q[1].id # 0 PROVE Below({q[1].id}, FrameIds(t))
  <2>1. SUFFICES ASSUME NEW i \in 1 .. n, t[i].id # 0 PROVE q[1].id < t[i].id
    BY <1>2 DEF Below, FrameIds
  <2>2. i + 1 \in 1 .. n + 1 /\ 1 < i + 1 /\ 1 \in 1 .. n + 1
    OBVIOUS
  <2>. QED
    BY <2>1, <2>2, <1>1, <1>2, <1>7 DEF FramesRising
<1>8. Len(t) = Len(q) - 1
  BY <1>1, <1>2
<1>. QED
  BY <1>2, <1>5, <1>6, <1>7, <1>8 DEF t

LEMMA AppendFrames ==
  ASSUME NEW q \in Seq(FrameRecords), NEW x \in FrameRecords
  PROVE  /\ Append(q, x) \in Seq(FrameRecords) /\ Len(Append(q, x)) = Len(q) + 1
         /\ FrameIds(Append(q, x)) = FrameIds(q) \cup ({x.id} \ {0})
         /\ FramesRising(q) /\ (x.id # 0 => Below(FrameIds(q), {x.id})) => FramesRising(Append(q, x))
         /\ q # <<>> => Head(Append(q, x)) = Head(q) /\ Tail(Append(q, x)) = Append(Tail(q), x)
<1>1. PICK n \in Nat : Len(q) = n
  OBVIOUS
<1>. DEFINE r == Append(q, x)
<1>2. r \in Seq(FrameRecords) /\ Len(r) = n + 1 /\ r[n + 1] = x /\ \A i \in 1 .. n : r[i] = q[i]
  BY <1>1
<1>3. q # <<>> => Head(r) = Head(q) /\ Tail(r) = Append(Tail(q), x)
  BY HeadTailAppend
<1>. HIDE DEF r
<1>4. \A k \in 1 .. n + 1 : k = n + 1 \/ k \in 1 .. n
  OBVIOUS
<1>5. n + 1 \in 1 .. n + 1 /\ \A k \in 1 .. n : k \in 1 .. n + 1
  OBVIOUS
<1>6. FrameIds(r) = FrameIds(q) \cup ({x.id} \ {0})
  BY <1>1, <1>2, <1>4, <1>5 DEF FrameIds
<1>7. ASSUME FramesRising(q), x.id # 0 => Below(FrameIds(q), {x.id}) PROVE FramesRising(r)
  <2>1. SUFFICES ASSUME NEW i \in 1 .. n + 1, NEW j \in 1 .. n + 1, i < j, r[i].id # 0, r[j].id # 0
                 PROVE  r[i].id < r[j].id
    BY <1>2 DEF FramesRising
  <2>2. i \in 1 .. n
    BY <2>1
  <2>3. CASE j \in 1 .. n
    BY <2>1, <2>2, <2>3, <1>1, <1>2, <1>7 DEF FramesRising
  <2>4. CASE j = n + 1
    <3>1. q[i].id \in FrameIds(q) /\ r[i] = q[i] /\ r[j] = x
      BY <2>1, <2>2, <2>4, <1>1, <1>2 DEF FrameIds
    <3>. QED
      BY <3>1, <2>1, <1>7 DEF Below
  <2>. QED
    BY <2>3, <2>4, <1>4
<1>. QED
  BY <1>1, <1>2, <1>3, <1>6, <1>7 DEF r
-----------------------------------------------------------------------------
(* Types                                                                   *)

LEMMA FramesNat == MaxCalls \in Nat /\ MaxInterval \in Nat /\ Frames \subseteq Nat /\ 0 \in Frames
                   /\ Calls \subseteq Frames
BY PresentationAssumption DEF Frames, Calls

LEMMA RunCallbacksType ==
  ASSUME TypeInv, RunCallbacks,
         \A c \in callbacks : c.frame <= value => c.frame = value
  PROVE  /\ fired' \in [Calls -> Nat] /\ callbacks' \subseteq callbacks /\ value' = value
         /\ \A c \in callbacks' : ~(c.frame <= value)
         /\ presentCount' = presentCount \/ presentCount' = value
         /\ \A n \in Calls : \/ fired'[n] = fired[n] /\ \A c \in callbacks : c.n = n => ~(c.frame <= value)
                             \/ fired'[n] = fired[n] + 1 /\ \E c \in callbacks : c.n = n /\ c.frame <= value
<1>. DEFINE due == {c \in callbacks : c.frame <= value}
<1>1. /\ fired' = [n \in Calls |-> IF \E c \in due : c.n = n THEN fired[n] + 1 ELSE fired[n]]
      /\ IF due = {} THEN UNCHANGED presentCount
         ELSE presentCount' = (CHOOSE c \in due : \A d \in due : d.n <= c.n).frame
      /\ callbacks' = callbacks \ due
      /\ UNCHANGED value
  BY DEF RunCallbacks
<1>2. fired \in [Calls -> Nat] /\ callbacks \subseteq CallbackRecords
  BY DEF TypeInv, FenceType
<1>3. due # {} => \E c \in due : \A d \in due : d.n <= c.n
  <2>1. SUFFICES ASSUME due # {} PROVE \E c \in due : \A d \in due : d.n <= c.n
    OBVIOUS
  <2>2. \A c \in due : c.n \in Nat /\ MaxCalls - c.n \in Nat
    BY <1>2, FramesNat DEF CallbackRecords, Calls
  <2>. DEFINE T == {MaxCalls - c.n : c \in due}
  <2>3. T \subseteq Nat /\ T # {}
    BY <2>1, <2>2
  <2>4. PICK x \in T : \A y \in T : ~(<<y, x>> \in OpToRel(<, Nat))
    <3>. HIDE DEF T
    <3>. QED
      BY <2>3, NatLessThanWellFounded, WFMin
  <2>5. PICK c \in due : x = MaxCalls - c.n
    OBVIOUS
  <2>6. ASSUME NEW d \in due PROVE d.n <= c.n
    <3>1. ~(<<MaxCalls - d.n, MaxCalls - c.n>> \in OpToRel(<, Nat))
      BY <2>4, <2>5
    <3>2. ~(MaxCalls - d.n < MaxCalls - c.n)
      BY <3>1, <2>2 DEF OpToRel
    <3>. QED
      BY <3>2, <2>2, FramesNat
  <2>. QED
    BY <2>6
<1>4. presentCount' = presentCount \/ presentCount' = value
  <2>1. CASE due # {}
    <3>1. PICK c \in due : presentCount' = c.frame
      BY <2>1, <1>1, <1>3
    <3>. QED
      BY <3>1
  <2>. QED
    BY <2>1, <1>1
<1>. QED
  BY <1>1, <1>2, <1>4

LEMMA TypesKept ==
  /\ AppType /\ UNCHANGED appVars => AppType'
  /\ PresenterType /\ UNCHANGED <<chain, acquire, lastFrame, frameVars>> => PresenterType'
  /\ QueueType /\ UNCHANGED queueVars => QueueType'
  /\ FenceType /\ UNCHANGED fenceVars => FenceType'
<1>1. AppType /\ UNCHANGED appVars => AppType'
  BY DEF AppType, appVars
<1>2. PresenterType /\ UNCHANGED <<chain, acquire, lastFrame, frameVars>> => PresenterType'
  BY DEF PresenterType, frameVars
<1>3. QueueType /\ UNCHANGED queueVars => QueueType'
  BY DEF QueueType, queueVars
<1>4. FenceType /\ UNCHANGED fenceVars => FenceType'
  BY DEF FenceType, fenceVars
<1>. QED
  BY <1>1, <1>2, <1>3, <1>4

LEMMA RunCallbacksFence == IInv /\ RunCallbacks => FenceType'
<1>. SUFFICES ASSUME IInv, RunCallbacks PROVE FenceType'
  OBVIOUS
<1>1. \A c \in callbacks : c.frame <= value => c.frame = value
  <2>1. \A c \in callbacks : value <= c.frame /\ c.frame \in Nat /\ value \in Nat
    BY FramesNat DEF IInv, CallbackInv, TypeInv, FenceType, CallbackRecords
  <2>. QED
    BY <2>1
<1>2. /\ fired' \in [Calls -> Nat] /\ callbacks' \subseteq callbacks /\ value' = value
      /\ presentCount' = presentCount \/ presentCount' = value
  BY <1>1, RunCallbacksType DEF IInv
<1>. QED
  BY <1>2 DEF IInv, TypeInv, FenceType

LEMMA TypeStep == IInv /\ [Next]_vars => TypeInv'
<1>. SUFFICES ASSUME IInv, [Next]_vars PROVE TypeInv'
  OBVIOUS
<1>0. AppType /\ PresenterType /\ QueueType /\ FenceType /\ CallInv /\ FlowInv
  BY DEF IInv, TypeInv
<1>50. RunCallbacks => FenceType'
  BY RunCallbacksFence
<1>1. CASE Present
  <2>1. AppType'
    <3>1. call.n + 1 \in 0 .. MaxCalls
      BY <1>0, <1>1, FramesNat DEF Present, AppType
    <3>2. \A i \in 1 .. MaxInterval : i \in Nat
      BY FramesNat
    <3>3. PICK interval \in Nat, dirty, test \in BOOLEAN :
            call' = [n |-> call.n + 1, interval |-> interval, repeat |-> 0,
                     dirty |-> dirty /\ chain /\ ~test, test |-> test]
      BY <1>1, <3>2 DEF Present
    <3>4. PICK d \in BOOLEAN : d = (dirty /\ chain /\ ~test)
      OBVIOUS
    <3>5. call' \in [n : 0 .. MaxCalls, interval : Nat, repeat : Nat, dirty : BOOLEAN, test : BOOLEAN]
      BY <3>1, <3>3, <3>4
    <3>6. pc' \in Pcs /\ ret' \in {"check", "sync", "image"} /\ frameId' = frameId
      BY <1>0, <1>1 DEF Present, AppType, Goto, Recreate, Pcs
    <3>. QED
      BY <1>0, <3>5, <3>6 DEF AppType
  <2>. QED
    BY <2>1, <1>0, <1>1, TypesKept DEF Present, TypeInv
<1>2. CASE Check
  <2>1. AppType'
    BY <1>0, <1>2 DEF Check, AppType, Goto, Recreate, Pcs
  <2>. QED
    BY <2>1, <1>0, <1>2, TypesKept DEF Check, TypeInv
<1>3. CASE SynchronizePresent
  <2>1. AppType'
    BY <1>0, <1>3 DEF SynchronizePresent, AppType, Goto, Recreate, Pcs
  <2>. QED
    BY <2>1, <1>0, <1>3, TypesKept DEF SynchronizePresent, TypeInv
<1>4. CASE Acquire
  <2>1. AppType'
    BY <1>0, <1>4 DEF Acquire, AppType, Goto, Recreate, Pcs
  <2>2. PresenterType'
    BY <1>0, <1>4 DEF Acquire, PresenterType, frameVars
  <2>. QED
    BY <2>1, <2>2, <1>0, <1>4, TypesKept DEF Acquire, TypeInv
<1>5. CASE SubmitPresent
  <2>1. AppType'
    <3>1. call.n \in 0 .. MaxCalls /\ call.repeat \in Nat /\ frameId \in 0 .. MaxCalls /\ MaxCalls \in Nat
      BY <1>0, FramesNat DEF AppType, Frames
    <3>2. call.repeat = 0 => frameId < call.n
      BY <1>0, <1>5 DEF SubmitPresent, CallInv, Unnumbered
    <3>3. call.repeat = 0 => frameId + 1 \in 0 .. MaxCalls
      BY <3>1, <3>2
    <3>4. frameId' \in Frames
      BY <3>1, <3>3, <1>5 DEF SubmitPresent, Frames
    <3>5. call' = [call EXCEPT !.repeat = call.repeat + 1]
      BY <1>5 DEF SubmitPresent, NextRepeat
    <3>6. PICK k \in Nat : k = call.repeat + 1
      BY <3>1
    <3>7. call' \in [n : 0 .. MaxCalls, interval : Nat, repeat : Nat, dirty : BOOLEAN, test : BOOLEAN]
      BY <1>0, <3>5, <3>6 DEF AppType
    <3>8. pc' \in Pcs /\ ret' = ret
      BY <1>5 DEF SubmitPresent, NextRepeat, Goto, Pcs
    <3>. QED
      BY <1>0, <3>4, <3>7, <3>8 DEF AppType
  <2>2. QueueType'
    <3>1. PICK x \in Frames : csQueue' = Append(csQueue, x)
      BY <2>1, <1>5, FramesNat DEF SubmitPresent, AppType
    <3>2. csQueue' \in Seq(Frames)
      BY <1>0, <3>1, AppendIds DEF QueueType
    <3>. QED
      BY <1>0, <1>5, <3>2 DEF SubmitPresent, QueueType
  <2>. QED
    BY <2>1, <2>2, <1>0, <1>5, TypesKept DEF SubmitPresent, TypeInv
<1>6. CASE RecreateSwapChain
  <2>1. AppType'
    BY <1>0, <1>6 DEF RecreateSwapChain, AppType, Goto, Recreate, Pcs
  <2>2. QueueType'
    BY <1>0, <1>6 DEF RecreateSwapChain, QueueType, Results, queueVars
  <2>. QED
    BY <2>1, <2>2, <1>0, <1>6, TypesKept DEF RecreateSwapChain, TypeInv
<1>7. CASE DestroySwapchain
  <2>1. AppType'
    BY <1>0, <1>7 DEF DestroySwapchain, AppType, Goto, Recreate, Pcs
  <2>2. PresenterType'
    <3>1. PICK e \in FrameRecords : e = [id |-> 0, result |-> "success"]
      BY FramesNat DEF FrameRecords, Results
    <3>2. frameQueue' \in Seq(FrameRecords)
      BY <1>0, <1>7, <3>1, AppendFrames DEF DestroySwapchain, PresenterType
    <3>. QED
      BY <1>0, <1>7, <3>2 DEF DestroySwapchain, PresenterType
  <2>. QED
    BY <2>1, <2>2, <1>0, <1>7, TypesKept DEF DestroySwapchain, TypeInv
<1>8. CASE CreateSwapChain
  <2>1. AppType'
    BY <1>0, <1>8 DEF CreateSwapChain, AppType, Goto, Recreate, Pcs
  <2>2. PresenterType'
    BY <1>0, <1>8 DEF CreateSwapChain, PresenterType, frameVars
  <2>. QED
    BY <2>1, <2>2, <1>0, <1>8, TypesKept DEF CreateSwapChain, TypeInv
<1>9. CASE CreateFails
  <2>1. AppType'
    BY <1>0, <1>9 DEF CreateFails, AppType, Goto, Recreate, Pcs
  <2>. QED
    BY <2>1, <1>0, <1>9, TypesKept DEF CreateFails, TypeInv
<1>10. CASE SyncFrameLatency
  <2>1. AppType'
    BY <1>0, <1>10 DEF SyncFrameLatency, AppType, Goto, Recreate, Pcs
  <2>. QED
    BY <2>1, <1>0, <1>10, TypesKept DEF SyncFrameLatency, TypeInv
<1>11. CASE SetCallback
  <2>1. AppType'
    BY <1>0, <1>11 DEF SetCallback, AppType, Goto, Recreate, Pcs
  <2>2. FenceType'
    <3>1. call.n \in Calls
      BY <1>0, <1>11 DEF SetCallback, CallInv, Running
    <3>2. fired[call.n] \in Nat
      BY <3>1, <1>0 DEF FenceType
    <3>3. frameId \in Frames
      BY <1>0 DEF AppType
    <3>. QED
      BY <1>0, <1>11, <3>1, <3>2, <3>3 DEF SetCallback, Counted, FenceType
  <2>. QED
    BY <2>1, <2>2, <1>0, <1>11, TypesKept DEF SetCallback, TypeInv
<1>12. CASE InsertCallback
  <2>1. AppType'
    BY <1>0, <1>12 DEF InsertCallback, AppType, Goto, Recreate, Pcs
  <2>2. FenceType'
    <3>1. call.n \in Calls
      BY <1>0, <1>12 DEF InsertCallback, CallInv, Running
    <3>2. fired[call.n] \in Nat
      BY <3>1, <1>0 DEF FenceType
    <3>3. frameId \in Frames
      BY <1>0 DEF AppType
    <3>4. [n |-> call.n, frame |-> frameId] \in CallbackRecords
      BY <1>0, <3>1 DEF AppType, CallbackRecords
    <3>. QED
      BY <1>0, <1>12, <3>1, <3>2, <3>3, <3>4 DEF InsertCallback, Counted, FenceType
  <2>. QED
    BY <2>1, <2>2, <1>0, <1>12, TypesKept DEF InsertCallback, TypeInv
<1>13. CASE Join
  <2>1. AppType'
    BY <1>0, <1>13 DEF Join, AppType, Goto, Recreate, Pcs
  <2>. QED
    BY <2>1, <1>0, <1>13, TypesKept DEF Join, TypeInv
<1>14. CASE Close
  <2>1. AppType'
    BY <1>0, <1>14 DEF Close, AppType, Goto, Recreate, Pcs
  <2>. QED
    BY <2>1, <1>0, <1>14, TypesKept DEF Close, TypeInv
<1>15. CASE CsPresent
  <2>1. QueueType'
    <3>1. csQueue \in Seq(Frames) /\ submitQueue \in Seq(Frames) /\ csQueue # <<>>
      BY <1>0, <1>15 DEF CsPresent, QueueType
    <3>2. Tail(csQueue) \in Seq(Frames) /\ Head(csQueue) \in Frames
      BY <3>1, TailIds
    <3>3. Append(submitQueue, Head(csQueue)) \in Seq(Frames)
      BY <3>1, <3>2, AppendIds
    <3>. QED
      BY <1>0, <1>15, <3>2, <3>3 DEF CsPresent, QueueType
  <2>. QED
    BY <2>1, <1>0, <1>15, TypesKept DEF CsPresent, TypeInv
<1>16. CASE SubmitTake
  <2>1. QueueType'
    BY <1>0, <1>16 DEF SubmitTake, QueueType, Results, queueVars
  <2>. QED
    BY <2>1, <1>0, <1>16, TypesKept DEF SubmitTake, TypeInv
<1>17. CASE PresentImage
  <2>1. QueueType'
    <3>1. PICK r \in Results : submitter' = [pc |-> "write", result |-> r]
      BY <1>17 DEF PresentImage, Results
    <3>2. submitter' \in [pc : {"idle", "present", "write", "forward"}, result : Results]
      BY <3>1
    <3>. QED
      BY <1>0, <1>17, <3>2 DEF PresentImage, QueueType
  <2>2. PresenterType'
    BY <1>0, <1>17 DEF PresentImage, PresenterType, frameVars
  <2>. QED
    BY <2>1, <2>2, <1>0, <1>17, TypesKept DEF PresentImage, TypeInv
<1>18. CASE SubmitStatus
  <2>1. QueueType'
    BY <1>0, <1>18 DEF SubmitStatus, QueueType, Results, queueVars
  <2>. QED
    BY <2>1, <1>0, <1>18, TypesKept DEF SubmitStatus, TypeInv
<1>19. CASE SubmitForward
  <2>1. QueueType'
    <3>1. /\ submitQueue \in Seq(Frames) /\ submitQueue # <<>> /\ finishQueue \in Seq(FrameRecords)
          /\ submitter.result \in Results
      BY <1>0, <1>19 DEF SubmitForward, QueueType, FlowInv
    <3>2. Tail(submitQueue) \in Seq(Frames) /\ Head(submitQueue) \in Frames
      BY <3>1, TailIds
    <3>3. PICK e \in FrameRecords : e = [id |-> Head(submitQueue), result |-> submitter.result]
      BY <3>1, <3>2 DEF FrameRecords
    <3>4. Append(finishQueue, e) \in Seq(FrameRecords)
      BY <3>1, AppendFrames
    <3>. QED
      BY <1>0, <1>19, <3>2, <3>3, <3>4 DEF SubmitForward, QueueType
  <2>. QED
    BY <2>1, <1>0, <1>19, TypesKept DEF SubmitForward, TypeInv
<1>20. CASE SignalFrame
  <2>1. QueueType'
    BY <1>0, <1>20 DEF SignalFrame, QueueType, Results, queueVars
  <2>2. PresenterType'
    <3>1. Head(finishQueue) \in FrameRecords
      BY <1>0, <1>20, TailFrames DEF SignalFrame, QueueType
    <3>2. Append(frameQueue, Head(finishQueue)) \in Seq(FrameRecords)
      BY <1>0, <3>1, AppendFrames DEF PresenterType
    <3>. QED
      BY <1>0, <1>20, <3>2 DEF SignalFrame, PresenterType, frameVars
  <2>3. FenceType'
    <3>1. Head(finishQueue) \in FrameRecords
      BY <1>0, <1>20, TailFrames DEF SignalFrame, QueueType
    <3>2. Head(finishQueue).id \in Frames
      BY <3>1 DEF FrameRecords
    <3>. QED
      BY <1>0, <1>20, <3>2 DEF SignalFrame, SignalValue, FenceType, fenceVars
  <2>. QED
    BY <2>1, <2>2, <2>3, <1>0, <1>20, TypesKept DEF SignalFrame, TypeInv
<1>21. CASE SignalFrameCallbacks
  <2>1. QueueType'
    BY <1>0, <1>21 DEF SignalFrameCallbacks, QueueType, Results, queueVars
  <2>2. FenceType'
    BY <1>50, <1>21 DEF SignalFrameCallbacks
  <2>. QED
    BY <2>1, <2>2, <1>0, <1>21, TypesKept DEF SignalFrameCallbacks, TypeInv
<1>22. CASE SignalFrameStore
  <2>1. QueueType'
    BY <1>0, <1>22 DEF SignalFrameStore, QueueType, Results, queueVars
  <2>2. PresenterType'
    <3>1. Head(finishQueue) \in FrameRecords
      BY <1>0, <1>22, TailFrames DEF SignalFrameStore, FlowInv, QueueType
    <3>2. Head(finishQueue).id \in Frames
      BY <3>1 DEF FrameRecords
    <3>. QED
      BY <1>0, <1>22, <3>2 DEF SignalFrameStore, PresenterType, frameVars
  <2>. QED
    BY <2>1, <2>2, <1>0, <1>22, TypesKept DEF SignalFrameStore, TypeInv
<1>23. CASE FinishPop
  <2>1. QueueType'
    <3>1. Tail(finishQueue) \in Seq(FrameRecords)
      BY <1>0, <1>23, TailFrames DEF FinishPop, FlowInv, QueueType
    <3>. QED
      BY <1>0, <1>23, <3>1 DEF FinishPop, QueueType
  <2>. QED
    BY <2>1, <1>0, <1>23, TypesKept DEF FinishPop, TypeInv
<1>24. CASE FrameTake
  <2>1. PresenterType'
    <3>1. Head(frameQueue) \in FrameRecords /\ frameQueue' \in Seq(FrameRecords)
      BY <1>0, <1>24, TailFrames DEF FrameTake, PresenterType
    <3>2. PICK p \in {"gone", "done", "wait"} : frame' = [pc |-> p, id |-> Head(frameQueue).id]
      BY <1>24 DEF FrameTake
    <3>3. frame' \in [pc : {"idle", "wait", "done", "signal", "gone"}, id : Frames]
      BY <3>1, <3>2 DEF FrameRecords
    <3>. QED
      BY <1>0, <1>24, <3>1, <3>3 DEF FrameTake, PresenterType
  <2>. QED
    BY <2>1, <1>0, <1>24, TypesKept DEF FrameTake, TypeInv
<1>25. CASE FrameWaited
  <2>1. PresenterType'
    BY <1>0, <1>25 DEF FrameWaited, PresenterType, frameVars
  <2>. QED
    BY <2>1, <1>0, <1>25, TypesKept DEF FrameWaited, TypeInv
<1>26. CASE FrameSignal
  <2>1. PresenterType'
    BY <1>0, <1>26 DEF FrameSignal, PresenterType, frameVars
  <2>2. FenceType'
    <3>1. frame.id \in Frames
      BY <1>0 DEF PresenterType
    <3>. QED
      BY <1>0, <1>26, <3>1 DEF FrameSignal, SignalValue, FenceType
  <2>. QED
    BY <2>1, <2>2, <1>0, <1>26, TypesKept DEF FrameSignal, TypeInv
<1>27. CASE FrameCallbacks
  <2>1. PresenterType'
    BY <1>0, <1>27, FramesNat DEF FrameCallbacks, PresenterType
  <2>2. FenceType'
    BY <1>50, <1>27 DEF FrameCallbacks
  <2>. QED
    BY <2>1, <2>2, <1>0, <1>27, TypesKept DEF FrameCallbacks, TypeInv
<1>28. CASE Lose
  <2>1. QueueType'
    BY <1>0, <1>28 DEF Lose, QueueType, Results, queueVars
  <2>. QED
    BY <2>1, <1>0, <1>28, TypesKept DEF Lose, TypeInv
<1>29. CASE UNCHANGED vars
  BY <1>0, <1>29, TypesKept DEF vars, TypeInv
<1>. QED
  BY <1>1, <1>2, <1>3, <1>4, <1>5, <1>6, <1>7, <1>8, <1>9, <1>10, <1>11, <1>12, <1>13, <1>14,
     <1>15, <1>16, <1>17, <1>18, <1>19, <1>20, <1>21, <1>22, <1>23, <1>24, <1>25, <1>26, <1>27,
     <1>28, <1>29
     DEF Next, App, Queue, FrameThread
-----------------------------------------------------------------------------
(* One present at a time                                                   *)

LEMMA EmptyLen == \A q : q \in Seq(Frames) \/ q \in Seq(FrameRecords) =>
                    Len(q) \in Nat /\ (q = <<>> <=> Len(q) = 0)
OBVIOUS

LEMMA QueueLengths ==
  QueueType => /\ Len(csQueue) \in Nat /\ (csQueue = <<>> <=> Len(csQueue) = 0)
               /\ Len(submitQueue) \in Nat /\ (submitQueue = <<>> <=> Len(submitQueue) = 0)
BY EmptyLen DEF QueueType

\* What holds while a present is not published, and while it is at the submit thread.
LEMMA FlowMeans ==
  ASSUME QueueType, FlowInv
  PROVE  /\ submitter.pc \in {"present", "write"} =>
              status = "not ready" /\ csQueue = <<>> /\ Len(submitQueue) = 1
         /\ csQueue # <<>> => /\ status = "not ready" /\ Len(csQueue) = 1
                              /\ IF submitter.pc = "forward" THEN Len(submitQueue) = 1
                                 ELSE submitQueue = <<>>
         /\ status # "not ready" =>
              csQueue = <<>> /\ IF submitter.pc = "forward" THEN Len(submitQueue) = 1
                                ELSE submitQueue = <<>>
         /\ finishQueue = <<>> => finisher = "idle"
         /\ submitQueue = <<>> => submitter.pc = "idle"
<1>1. /\ Len(csQueue) \in Nat /\ (csQueue = <<>> <=> Len(csQueue) = 0)
      /\ Len(submitQueue) \in Nat /\ (submitQueue = <<>> <=> Len(submitQueue) = 0)
  BY QueueLengths
<1>2. PICK a \in Nat, b \in Nat : a = Len(csQueue) /\ b = Len(submitQueue)
  BY <1>1
<1>3. PICK k \in {0, 1} : k = IF submitter.pc = "forward" THEN 1 ELSE 0
  OBVIOUS
<1>4. a + b - k = Unpublished
  BY <1>2, <1>3 DEF Unpublished
<1>5. /\ status = "not ready" => a + b - k = 1
      /\ status # "not ready" => a + b - k = 0
      /\ submitter.pc # "idle" => b # 0
      /\ finishQueue = <<>> => finisher = "idle"
  BY <1>1, <1>2, <1>4 DEF FlowInv
<1>6. /\ status = "not ready" /\ k = 0 => (a = 1 /\ b = 0) \/ (a = 0 /\ b = 1)
      /\ status = "not ready" /\ k = 1 => (a = 2 /\ b = 0) \/ (a = 1 /\ b = 1) \/ (a = 0 /\ b = 2)
      /\ status # "not ready" /\ k = 0 => a = 0 /\ b = 0
      /\ status # "not ready" /\ k = 1 => (a = 1 /\ b = 0) \/ (a = 0 /\ b = 1)
  <2>1. /\ a + b - 0 = 1 => (a = 1 /\ b = 0) \/ (a = 0 /\ b = 1)
        /\ a + b - 1 = 1 => (a = 2 /\ b = 0) \/ (a = 1 /\ b = 1) \/ (a = 0 /\ b = 2)
        /\ a + b - 0 = 0 => a = 0 /\ b = 0
        /\ a + b - 1 = 0 => (a = 1 /\ b = 0) \/ (a = 0 /\ b = 1)
    OBVIOUS
  <2>. QED
    BY <1>5, <2>1
<1>. QED
  BY <1>1, <1>2, <1>3, <1>5, <1>6

LEMMA FlowStep == IInv /\ [Next]_vars => FlowInv'
<1>. SUFFICES ASSUME IInv, [Next]_vars PROVE FlowInv'
  OBVIOUS
<1>0. /\ FlowInv /\ QueueType /\ AppType
      /\ Len(csQueue) \in Nat /\ (csQueue = <<>> <=> Len(csQueue) = 0)
      /\ Len(submitQueue) \in Nat /\ (submitQueue = <<>> <=> Len(submitQueue) = 0)
  BY QueueLengths DEF IInv, TypeInv
<1>1. CASE Present
  BY <1>0, <1>1 DEF Present, FlowInv, Unpublished, Unpresented, Goto, Recreate, queueVars, fenceVars
<1>2. CASE Check
  BY <1>0, <1>2 DEF Check, FlowInv, Unpublished, Unpresented, Goto, Recreate, queueVars, fenceVars
<1>3. CASE SynchronizePresent
  BY <1>0, <1>3 DEF SynchronizePresent, FlowInv, Unpublished, Unpresented, Goto, Recreate, queueVars,
     fenceVars
<1>4. CASE Acquire
  BY <1>0, <1>4 DEF Acquire, FlowInv, Unpublished, Unpresented, Goto, Recreate, queueVars, fenceVars
<1>5. CASE SubmitPresent
  <2>1. /\ status # "not ready" /\ status' = "not ready" /\ pc' \in {"sync", "latency"}
        /\ chain /\ acquire = "ok"
        /\ UNCHANGED <<chain, acquire, lastFrame, submitQueue, submitter, finishQueue, finisher, value>>
    BY <1>0, <1>5 DEF SubmitPresent, NextRepeat, FlowInv, Unpresented, Goto, fenceVars
  <2>2. Len(csQueue') = Len(csQueue) + 1
    <3>1. PICK x : csQueue' = Append(csQueue, x)
      BY <1>5 DEF SubmitPresent
    <3>2. csQueue \in Seq(Frames)
      BY <1>0 DEF QueueType
    <3>. QED
      BY <3>1, <3>2
  <2>3. Unpublished = 0 /\ Unpublished' = 1
    <3>1. Unpublished = 0
      BY <1>0, <2>1 DEF FlowInv
    <3>2. PICK k \in {0, 1} : k = IF submitter.pc = "forward" THEN 1 ELSE 0
      OBVIOUS
    <3>3. /\ Unpublished = Len(csQueue) + Len(submitQueue) - k
          /\ Unpublished' = Len(csQueue) + 1 + Len(submitQueue) - k
      BY <3>2, <2>1, <2>2 DEF Unpublished
    <3>. QED
      BY <3>1, <3>3, <1>0
  <2>. QED
    BY <1>0, <2>1, <2>3 DEF FlowInv, Unpresented
<1>6. CASE RecreateSwapChain
  BY <1>0, <1>6 DEF RecreateSwapChain, Idle, FlowInv, Unpublished, Unpresented, Goto, queueVars, fenceVars
<1>7. CASE DestroySwapchain
  <2>1. /\ status # "not ready" /\ submitQueue = <<>> /\ finishQueue = <<>> /\ pc' \in {"create", "join"}
        /\ value >= lastFrame
        /\ UNCHANGED <<csQueue, submitQueue, submitter, finishQueue, finisher, status, value, lastFrame>>
    BY <1>0, <1>7 DEF DestroySwapchain, FlowInv, Goto, queueVars, fenceVars
  <2>2. finisher = "idle" /\ value <= Last
    BY <1>0, <2>1, FlowMeans DEF IInv, NumberInv, Signalled
  <2>3. lastFrame = value
    <3>1. value \in Nat /\ lastFrame \in Nat
      BY FramesNat DEF IInv, TypeInv, PresenterType, FenceType
    <3>2. Last = lastFrame
      BY <2>2 DEF Last
    <3>3. value <= lastFrame /\ lastFrame <= value
      BY <3>2, <2>1, <2>2
    <3>. QED
      BY <3>1, <3>3
  <2>. QED
    BY <1>0, <2>1, <2>3 DEF FlowInv, Unpublished, Unpresented
<1>8. CASE CreateSwapChain
  BY <1>0, <1>8 DEF CreateSwapChain, AppType, FlowInv, Unpublished, Unpresented, Goto, queueVars, fenceVars
<1>9. CASE CreateFails
  BY <1>0, <1>9 DEF CreateFails, FlowInv, Unpublished, Unpresented, Goto, queueVars, fenceVars
<1>10. CASE SyncFrameLatency
  BY <1>0, <1>10 DEF SyncFrameLatency, FlowInv, Unpublished, Unpresented, Goto, queueVars, fenceVars
<1>11. CASE SetCallback
  BY <1>0, <1>11 DEF SetCallback, FlowInv, Unpublished, Unpresented, Goto, queueVars
<1>12. CASE InsertCallback
  BY <1>0, <1>12 DEF InsertCallback, FlowInv, Unpublished, Unpresented, Goto, queueVars
<1>13. CASE Join
  BY <1>0, <1>13 DEF Join, FlowInv, Unpublished, Unpresented, Goto, queueVars, fenceVars
<1>14. CASE Close
  BY <1>0, <1>14 DEF Close, Idle, FlowInv, Unpublished, Unpresented, Goto, queueVars, fenceVars
<1>15. CASE CsPresent
  <2>1. /\ csQueue # <<>> /\ status' = "not ready"
        /\ submitQueue' = Append(submitQueue, Head(csQueue)) /\ csQueue' = Tail(csQueue)
        /\ UNCHANGED <<pc, chain, acquire, lastFrame, submitter, finishQueue, finisher, value>>
    BY <1>15 DEF CsPresent, appVars, fenceVars
  <2>2. status = "not ready"
    BY <1>0, <2>1, FlowMeans
  <2>3. Len(submitQueue') = Len(submitQueue) + 1 /\ Len(csQueue') = Len(csQueue) - 1 /\ submitQueue' # <<>>
    <3>1. csQueue \in Seq(Frames) /\ submitQueue \in Seq(Frames)
      BY <1>0 DEF QueueType
    <3>2. Head(csQueue) \in Frames /\ Len(csQueue') = Len(csQueue) - 1
      BY <3>1, <2>1, TailIds
    <3>3. submitQueue' \in Seq(Frames) /\ Len(submitQueue') = Len(submitQueue) + 1
      BY <3>1, <3>2, <2>1, AppendIds
    <3>. QED
      BY <3>2, <3>3, <1>0, EmptyLen
  <2>4. Unpublished' = Unpublished
    <3>1. PICK k \in {0, 1} : k = IF submitter.pc = "forward" THEN 1 ELSE 0
      OBVIOUS
    <3>2. /\ Unpublished = Len(csQueue) + Len(submitQueue) - k
          /\ Unpublished' = (Len(csQueue) - 1) + (Len(submitQueue) + 1) - k
      BY <3>1, <2>1, <2>3 DEF Unpublished
    <3>. QED
      BY <3>2, <1>0
  <2>. QED
    BY <1>0, <2>1, <2>2, <2>3, <2>4 DEF FlowInv, Unpresented
<1>16. CASE SubmitTake
  <2>1. /\ submitQueue # <<>> /\ submitter.pc = "idle"
        /\ \/ submitter'.pc = "write"
           \/ submitter'.pc = "present" /\ submitter'.result = "success"
        /\ UNCHANGED <<pc, chain, acquire, lastFrame, csQueue, submitQueue, finishQueue, finisher, status,
                       value>>
    BY <1>16 DEF SubmitTake, appVars, fenceVars
  <2>2. Unpublished' = Unpublished
    BY <2>1 DEF Unpublished
  <2>. QED
    BY <1>0, <2>1, <2>2 DEF FlowInv, Unpresented
<1>17. CASE PresentImage
  <2>1. /\ submitter.pc = "present" /\ submitter'.pc = "write"
        /\ UNCHANGED <<pc, chain, lastFrame, csQueue, submitQueue, finishQueue, finisher, status, value>>
    BY <1>17 DEF PresentImage, appVars, fenceVars
  <2>2. Unpublished' = Unpublished /\ status = "not ready"
    BY <1>0, <2>1, FlowMeans DEF Unpublished
  <2>. QED
    BY <1>0, <2>1, <2>2 DEF FlowInv, Unpresented
<1>18. CASE SubmitStatus
  <2>1. /\ submitter.pc = "write" /\ submitter'.pc = "forward" /\ status' # "not ready"
        /\ UNCHANGED <<pc, chain, acquire, lastFrame, csQueue, submitQueue, finishQueue, finisher, value>>
    BY <1>0, <1>18 DEF SubmitStatus, QueueType, Results, appVars, fenceVars
  <2>2. Unpublished = 1 /\ Unpublished' = 0
    <3>1. Unpublished = 1
      BY <1>0, <2>1, FlowMeans DEF FlowInv
    <3>2. /\ Unpublished = Len(csQueue) + Len(submitQueue) - 0
          /\ Unpublished' = Len(csQueue) + Len(submitQueue) - 1
      BY <2>1 DEF Unpublished
    <3>. QED
      BY <3>1, <3>2, <1>0
  <2>. QED
    BY <1>0, <2>1, <2>2 DEF FlowInv, Unpresented
<1>19. CASE SubmitForward
  <2>1. /\ submitter.pc = "forward" /\ submitter'.pc = "idle" /\ submitQueue' = Tail(submitQueue)
        /\ UNCHANGED <<pc, chain, acquire, lastFrame, csQueue, finisher, status, value>>
        /\ submitQueue # <<>>
    BY <1>0, <1>19 DEF SubmitForward, FlowInv, QueueType, appVars, fenceVars
  <2>2. Len(submitQueue') = Len(submitQueue) - 1 /\ (Len(submitQueue) = 1 => submitQueue' = <<>>)
    <3>1. submitQueue \in Seq(Frames)
      BY <1>0 DEF QueueType
    <3>. QED
      BY <3>1, <2>1
  <2>3. Unpublished' = Unpublished
    BY <1>0, <2>1, <2>2 DEF Unpublished
  <2>4. finisher # "idle" => finishQueue' # <<>>
    <3>1. finishQueue' = finishQueue \/ \E e : finishQueue' = Append(finishQueue, e)
      BY <1>19 DEF SubmitForward
    <3>2. finishQueue \in Seq(FrameRecords)
      BY <1>0 DEF QueueType
    <3>3. finishQueue' # <<>> \/ finishQueue' = finishQueue
      BY <3>1, <3>2
    <3>. QED
      BY <3>3, <1>0 DEF FlowInv
  <2>5. chain /\ pc \notin {"destroy", "create", "close", "join", "gone"}
    BY <1>0, <2>1 DEF FlowInv
  <2>. QED
    BY <1>0, <2>1, <2>3, <2>4, <2>5 DEF FlowInv, Unpresented
<1>20. CASE SignalFrame
  <2>1. /\ finishQueue # <<>>
        /\ UNCHANGED <<pc, chain, acquire, lastFrame, csQueue, submitQueue, submitter, finishQueue, status>>
    BY <1>20 DEF SignalFrame, appVars
  <2>. QED
    BY <1>0, <2>1 DEF FlowInv, Unpublished, Unpresented
<1>21. CASE SignalFrameCallbacks
  <2>1. /\ finishQueue # <<>> /\ value' = value
        /\ UNCHANGED <<pc, chain, acquire, lastFrame, csQueue, submitQueue, submitter, finishQueue, status>>
    BY <1>0, <1>21 DEF SignalFrameCallbacks, RunCallbacks, FlowInv, appVars
  <2>. QED
    BY <1>0, <2>1 DEF FlowInv, Unpublished, Unpresented
<1>22. CASE SignalFrameStore
  <2>1. /\ finishQueue # <<>>
        /\ UNCHANGED <<pc, chain, acquire, csQueue, submitQueue, submitter, finishQueue, status>>
    BY <1>0, <1>22 DEF SignalFrameStore, FlowInv, appVars
  <2>. QED
    BY <1>0, <2>1 DEF FlowInv, Unpublished, Unpresented
<1>23. CASE FinishPop
  <2>1. /\ finishQueue # <<>> /\ finisher' = "idle"
        /\ UNCHANGED <<pc, chain, acquire, lastFrame, csQueue, submitQueue, submitter, status, value>>
    BY <1>0, <1>23 DEF FinishPop, FlowInv, appVars, fenceVars
  <2>. QED
    BY <1>0, <2>1 DEF FlowInv, Unpublished, Unpresented
<1>24. CASE FrameTake
  BY <1>0, <1>24 DEF FrameTake, FlowInv, Unpublished, Unpresented, appVars, queueVars, fenceVars
<1>25. CASE FrameWaited
  BY <1>0, <1>25 DEF FrameWaited, FlowInv, Unpublished, Unpresented, appVars, queueVars, fenceVars
<1>26. CASE FrameSignal
  <2>1. /\ frame.pc = "done"
        /\ UNCHANGED <<pc, chain, acquire, lastFrame, csQueue, submitQueue, submitter, finishQueue, finisher,
                       status>>
    BY <1>26 DEF FrameSignal, appVars, queueVars
  <2>2. chain
    <3>1. ~chain => lastFrame = value /\ finishQueue = <<>> /\ finisher = "idle"
      BY <1>0, FlowMeans DEF FlowInv
    <3>2. frame.id \in value + 1 .. Last
      BY <2>1 DEF IInv, NumberInv, Signalled, Current
    <3>3. value \in Nat
      BY FramesNat DEF IInv, TypeInv, FenceType
    <3>4. ~chain => Last = value
      BY <3>1 DEF Last
    <3>5. ~chain => frame.id \in value + 1 .. value
      BY <3>2, <3>4
    <3>6. chain \in BOOLEAN
      BY DEF IInv, TypeInv, PresenterType
    <3>. QED
      BY <3>3, <3>5, <3>6
  <2>. QED
    BY <1>0, <2>1, <2>2 DEF FlowInv, Unpublished, Unpresented
<1>27. CASE FrameCallbacks
  BY <1>0, <1>27 DEF FrameCallbacks, RunCallbacks, FlowInv, Unpublished, Unpresented, appVars, queueVars
<1>28. CASE Lose
  BY <1>0, <1>28 DEF Lose, FlowInv, Unpublished, Unpresented, appVars, fenceVars
<1>29. CASE UNCHANGED vars
  BY <1>0, <1>29 DEF vars, FlowInv, Unpublished, Unpresented, appVars, queueVars, fenceVars
<1>. QED
  BY <1>1, <1>2, <1>3, <1>4, <1>5, <1>6, <1>7, <1>8, <1>9, <1>10, <1>11, <1>12, <1>13, <1>14, <1>15,
     <1>16, <1>17, <1>18, <1>19, <1>20, <1>21, <1>22, <1>23, <1>24, <1>25, <1>26, <1>27, <1>28, <1>29
     DEF Next, App, Queue, FrameThread
-----------------------------------------------------------------------------
(* Frames on their way                                                     *)

\* A new frame is submitted.
LEMMA NewFrame ==
  ASSUME NEW L \in Nat, NEW n \in Nat, NEW W \in SUBSET Nat, NEW S \in SUBSET Nat,
         NEW C \in SUBSET Nat, NEW H \in SUBSET Nat, Passing(L, W, H, S, C, n)
  PROVE  /\ Passing(L, W, H, S, C \cup {n + 1}, n + 1) /\ Below(C, {n + 1})
         /\ Whole(L, W, S, C, n) => Whole(L, W, S, C \cup {n + 1}, n + 1)
<1>1. /\ \A x \in W \cup S \cup C : x < n + 1 /\ x \in Nat
      /\ n + 1 \in Nat /\ L <= n
  BY DEF Passing, Below
<1>2. \A x \in Nat : x < n + 1 => x < n + 2
  OBVIOUS
<1>3. L < n + 1 /\ n + 1 < n + 2 /\ (n + 1) + 1 = n + 2 /\ L <= n + 1
  BY <1>1
<1>4. L + 1 .. n + 1 = (L + 1 .. n) \cup {n + 1}
  BY <1>1
<1>. QED
  BY <1>1, <1>2, <1>3, <1>4 DEF Passing, Below, Whole

\* The CS thread hands the oldest present to the submission queue.
LEMMA FrameQueued ==
  ASSUME NEW L \in Nat, NEW n \in Nat, NEW W \in SUBSET Nat, NEW S \in SUBSET Nat,
         NEW C \in SUBSET Nat, NEW H \in SUBSET Nat, NEW D \in SUBSET Nat,
         Passing(L, W, H, S, C \cup D, n), Below(D, C)
  PROVE  /\ Passing(L, W, H, S \cup D, C, n) /\ Below(S, D)
         /\ Whole(L, W, S, C \cup D, n) => Whole(L, W, S \cup D, C, n)
BY DEF Passing, Below, Whole

\* The submit thread starts with an entry while no frame was dropped.
LEMMA FrameTaken ==
  ASSUME NEW L \in Nat, NEW n \in Nat, NEW W \in SUBSET Nat, NEW S \in SUBSET Nat,
         NEW C \in SUBSET Nat, NEW H \in SUBSET Nat, NEW D \in SUBSET Nat,
         Passing(L, W, H, S \cup D, C, n), Whole(L, W, S \cup D, C, n), Below(D, S),
         \A a, b \in D : a = b
  PROVE  Passing(L, W, D, S \cup D, C, n)
<1>1. ASSUME NEW a \in D, NEW m \in L + 1 .. a PROVE m \in W \cup D
  <2>1. a \in L + 1 .. n
    BY DEF Whole
  <2>2. m \in L + 1 .. n /\ m <= a
    BY <2>1
  <2>3. m \in W \cup (S \cup D) \cup C
    BY <2>2 DEF Whole
  <2>4. m \in S => a < m
    BY DEF Below
  <2>5. m \in C => a < m
    BY DEF Passing, Below
  <2>6. ~(a < m)
    BY <2>1, <2>2
  <2>. QED
    BY <2>3, <2>4, <2>5, <2>6
<1>2. \A a \in D : L < a
  BY DEF Passing, Below
<1>3. Gapless(L, W)
  BY DEF Passing
<1>4. Gapless(L, W \cup D)
  BY <1>1, <1>2, <1>3 DEF Gapless
<1>. QED
  BY <1>4 DEF Passing

\* The entry goes to the finish thread, or is dropped.
LEMMA FrameForwarded ==
  ASSUME NEW L \in Nat, NEW n \in Nat, NEW W \in SUBSET Nat, NEW S \in SUBSET Nat,
         NEW C \in SUBSET Nat, NEW H \in SUBSET Nat, NEW D \in SUBSET Nat,
         Passing(L, W, H, S \cup D, C, n), Below(D, S)
  PROVE  /\ H = D => Passing(L, W \cup D, {}, S, C, n) /\ Below(W, D)
         /\ H = D /\ Whole(L, W, S \cup D, C, n) => Whole(L, W \cup D, S, C, n)
         /\ Passing(L, W, {}, S, C, n)
<1>1. Below(W, S) /\ Below(D, S) /\ Below(W, D) /\ Below(W, C) /\ Below(S, C) /\ Below(D, C)
  BY DEF Passing, Below
<1>2. Below({L}, W \cup D \cup S \cup C) /\ Below(W \cup D \cup S \cup C, {n + 1})
  BY DEF Passing, Below
<1>3. Gapless(L, W) /\ Gapless(L, W \cup H) /\ L <= n
  BY DEF Passing
<1>4. Below(W \cup D, S) /\ Below(W \cup D, C)
  BY <1>1 DEF Below
<1>5. Below({L}, W \cup S \cup C) /\ Below(W \cup S \cup C, {n + 1})
  BY <1>2 DEF Below
<1>6. W \cup {} = W /\ (W \cup D) \cup {} = W \cup D
  OBVIOUS
<1>7. Passing(L, W, {}, S, C, n)
  BY <1>1, <1>3, <1>5, <1>6 DEF Passing
<1>8. H = D => Passing(L, W \cup D, {}, S, C, n)
  BY <1>1, <1>2, <1>3, <1>4, <1>6 DEF Passing
<1>9. H = D /\ Whole(L, W, S \cup D, C, n) => Whole(L, W \cup D, S, C, n)
  BY DEF Whole
<1>. QED
  BY <1>1, <1>7, <1>8, <1>9

\* The finish thread comes to a frame: it is the one after the last.
LEMMA FrameFinished ==
  ASSUME NEW L \in Nat, NEW n \in Nat, NEW W \in SUBSET Nat, NEW S \in SUBSET Nat,
         NEW C \in SUBSET Nat, NEW H \in SUBSET Nat, NEW i \in Nat,
         Passing(L, W \cup {i}, H, S, C, n), Below({i}, W), H \subseteq S
  PROVE  /\ i = L + 1 /\ Passing(i, W, H, S, C, n)
         /\ Whole(L, W \cup {i}, S, C, n) => Whole(i, W, S, C, n)
<1>1. /\ \A w \in W : i < w /\ w \in Nat
      /\ L < i /\ i < n + 1 /\ \A m \in L + 1 .. i : m \in W \cup {i}
  BY DEF Passing, Below, Gapless
<1>2. i = L + 1
  <2>1. SUFFICES ASSUME i # L + 1 PROVE FALSE
    OBVIOUS
  <2>2. L + 1 \in L + 1 .. i /\ ~(i < L + 1)
    BY <1>1
  <2>3. L + 1 \in W
    BY <1>1, <2>1, <2>2
  <2>. QED
    BY <1>1, <2>2, <2>3
<1>3. \A a \in Nat : \A m \in i + 1 .. a : m \in L + 1 .. a /\ m # i
  BY <1>2
<1>4. Gapless(i, W)
  <2>1. Gapless(L, W \cup {i})
    BY DEF Passing
  <2>2. SUFFICES ASSUME NEW a \in W, NEW m \in i + 1 .. a PROVE m \in W
    BY <1>1 DEF Gapless
  <2>3. m \in L + 1 .. a /\ m # i
    BY <1>3
  <2>. QED
    BY <2>1, <2>3 DEF Gapless
<1>5. Gapless(i, W \cup H)
  <2>1. Gapless(L, (W \cup {i}) \cup H)
    BY DEF Passing
  <2>2. \A a \in W \cup H : i < a
    BY <1>1 DEF Passing, Below
  <2>3. SUFFICES ASSUME NEW a \in W \cup H, NEW m \in i + 1 .. a PROVE m \in W \cup H
    BY <2>2 DEF Gapless
  <2>4. m \in L + 1 .. a /\ m # i
    BY <1>3
  <2>. QED
    BY <2>1, <2>4 DEF Gapless
<1>6. Below({i}, W \cup S \cup C)
  BY <1>1 DEF Passing, Below
<1>7. i <= n
  BY <1>1
<1>8. ASSUME Whole(L, W \cup {i}, S, C, n) PROVE Whole(i, W, S, C, n)
  <2>1. i \notin W \cup S \cup C
    BY <1>6 DEF Below
  <2>2. L + 1 .. n = {i} \cup (i + 1 .. n) /\ i \notin i + 1 .. n
    BY <1>2, <1>7
  <2>. QED
    BY <1>8, <2>1, <2>2 DEF Whole
<1>. QED
  BY <1>2, <1>4, <1>5, <1>6, <1>7, <1>8 DEF Passing, Below

\* The frame thread gets a frame, starts with one, and signals it.
LEMMA FrameSignals ==
  ASSUME NEW v \in Nat, NEW L \in Nat, NEW K \in SUBSET Nat, NEW F \in SUBSET Nat, NEW i \in Nat
  PROVE  /\ Signalled(v, L, K, F) => Signalled(v, L + 1, K, F \cup {L + 1}) /\ Below(F, {L + 1})
         /\ Signalled(v, L, {}, F \cup {i}) /\ Below({i}, F) => Signalled(v, L, {i}, F)
         /\ Signalled(v, L, {i}, F) => i = v + 1 /\ i <= L /\ Signalled(i, L, {}, F)
         /\ Signalled(v, v, K, F) => Signalled(L, L, K, F)
<1>1. ASSUME Signalled(v, L, K, F)
      PROVE  Signalled(v, L + 1, K, F \cup {L + 1}) /\ Below(F, {L + 1})
  <2>1. \A x \in K \cup F : x < L + 1
    BY <1>1 DEF Signalled
  <2>2. v <= L + 1 /\ v + 1 .. L + 1 = (v + 1 .. L) \cup {L + 1}
    BY <1>1 DEF Signalled
  <2>. QED
    BY <1>1, <2>1, <2>2 DEF Signalled, Below
<1>2. ASSUME Signalled(v, L, {}, F \cup {i}), Below({i}, F) PROVE Signalled(v, L, {i}, F)
  BY <1>2 DEF Signalled
<1>3. ASSUME Signalled(v, L, {i}, F) PROVE i = v + 1 /\ i <= L /\ Signalled(i, L, {}, F)
  <2>1. {i} \cup F = v + 1 .. L /\ \A f \in F : i < f
    BY <1>3 DEF Signalled, Below
  <2>2. v + 1 <= i /\ i <= L /\ v + 1 \in {i} \cup F
    BY <2>1
  <2>3. i = v + 1
    BY <2>1, <2>2
  <2>4. v + 1 .. L = {i} \cup (i + 1 .. L) /\ i \notin i + 1 .. L
    BY <2>2, <2>3
  <2>5. i \notin F
    BY <2>1
  <2>6. F = i + 1 .. L
    BY <2>1, <2>4, <2>5
  <2>. QED
    BY <2>2, <2>3, <2>6 DEF Signalled, Below
<1>4. ASSUME Signalled(v, v, K, F) PROVE Signalled(L, L, K, F)
  <2>1. v + 1 .. v = {} /\ L + 1 .. L = {} /\ L <= L
    OBVIOUS
  <2>. QED
    BY <1>4, <2>1 DEF Signalled
<1>. QED
  BY <1>1, <1>2, <1>3, <1>4
-----------------------------------------------------------------------------
(* Numbers of frames                                                       *)

LEMMA IdsNat ==
  ASSUME NEW q, q \in Seq(Frames) PROVE Ids(q) \in SUBSET Nat
<1>1. SUFFICES ASSUME NEW i \in 1 .. Len(q) PROVE q[i] \in Nat
  BY DEF Ids
<1>2. q[i] \in Frames
  OBVIOUS
<1>. QED
  BY <1>2, FramesNat

LEMMA FrameIdsNat ==
  ASSUME NEW q, q \in Seq(FrameRecords) PROVE FrameIds(q) \in SUBSET Nat
<1>1. SUFFICES ASSUME NEW i \in 1 .. Len(q) PROVE q[i].id \in Nat
  BY DEF FrameIds
<1>2. q[i] \in FrameRecords
  OBVIOUS
<1>. QED
  BY <1>2, FramesNat DEF FrameRecords

LEMMA NumberTypes ==
  ASSUME TypeInv, FlowInv
  PROVE  /\ Last \in Nat /\ value \in Nat /\ frameId \in Nat /\ lastFrame \in Nat
         /\ Waiting \in Seq(FrameRecords)
         /\ FrameIds(Waiting) \in SUBSET Nat /\ FrameIds(frameQueue) \in SUBSET Nat
         /\ Ids(submitQueue) \in SUBSET Nat /\ Ids(csQueue) \in SUBSET Nat
         /\ Current \in SUBSET Nat /\ Handed \in SUBSET Nat /\ Handed \subseteq Ids(submitQueue)
         /\ finisher # "idle" => Head(finishQueue) \in FrameRecords /\ Head(finishQueue).id \in Nat
<1>1. QueueType /\ value \in Nat /\ frameId \in Nat /\ lastFrame \in Nat /\ frame.id \in Nat
      /\ frameQueue \in Seq(FrameRecords)
  BY FramesNat DEF TypeInv, AppType, PresenterType, FenceType
<1>2. csQueue \in Seq(Frames) /\ submitQueue \in Seq(Frames) /\ finishQueue \in Seq(FrameRecords)
  BY <1>1 DEF QueueType
<1>3. finisher # "idle" =>
        Tail(finishQueue) \in Seq(FrameRecords) /\ Head(finishQueue) \in FrameRecords
  BY <1>2, TailFrames DEF FlowInv
<1>4. finisher # "idle" => Head(finishQueue).id \in Nat
  BY <1>3, FramesNat DEF FrameRecords
<1>5. Waiting \in Seq(FrameRecords)
  BY <1>2, <1>3 DEF Waiting
<1>6. Last \in Nat
  BY <1>1, <1>4 DEF Last
<1>7. FrameIds(Waiting) \in SUBSET Nat /\ FrameIds(frameQueue) \in SUBSET Nat
  BY <1>1, <1>5, FrameIdsNat
<1>8. Ids(submitQueue) \in SUBSET Nat /\ Ids(csQueue) \in SUBSET Nat
  BY <1>2, IdsNat
<1>9. Handed \subseteq Ids(submitQueue)
  <2>1. submitter.pc # "idle" => {Head(submitQueue)} \ {0} \subseteq Ids(submitQueue)
    <3>1. SUFFICES ASSUME submitQueue # <<>>
                   PROVE  {Head(submitQueue)} \ {0} \subseteq Ids(submitQueue)
      BY DEF FlowInv
    <3>2. Ids(submitQueue) = Ids(Tail(submitQueue)) \cup ({Head(submitQueue)} \ {0})
      BY <1>2, <3>1, TailIds
    <3>. QED
      BY <3>2
  <2>. QED
    BY <2>1 DEF Handed
<1>10. Current \in SUBSET Nat
  BY <1>1 DEF Current
<1>. QED
  BY <1>1, <1>3, <1>4, <1>5, <1>6, <1>7, <1>8, <1>9, <1>10

\* Steps that move no frame.
LEMMA NumberKept ==
  ASSUME NumberInv, UNCHANGED <<csQueue, submitQueue, frameQueue, value, frameId, config>>,
         FrameIds(Waiting)' = FrameIds(Waiting), FramesRising(Waiting)',
         Last' = Last, Current' = Current,
         Handed' = Handed \/ Handed' = {}, lastError \/ Doomed => lastError' \/ Doomed',
         ~config.wait => frame'.pc = "idle", finisher' = "signal" => ~config.wait
  PROVE  NumberInv'
<1>. DEFINE W == FrameIds(Waiting)
            S == Ids(submitQueue)
            C == Ids(csQueue)
            F == FrameIds(frameQueue)
            K == Current
            L == Last
<1>1. W' = W /\ S' = S /\ C' = C /\ F' = F /\ K' = K /\ L' = L
  OBVIOUS
<1>2. Passing(L, W, Handed, S, C, frameId) /\ (~lastError /\ ~Doomed => Whole(L, W, S, C, frameId))
      /\ Signalled(value, L, K, F)
  BY DEF NumberInv
<1>3. Rising(csQueue') /\ Rising(submitQueue') /\ FramesRising(frameQueue')
  BY DEF NumberInv
<1>4. ~config'.wait => frame'.pc = "idle" /\ value' = L'
  BY DEF NumberInv
<1>. HIDE DEF W, S, C, F, K, L
<1>5. Passing(L, W, {}, S, C, frameId)
  <2>1. W \cup {} = W
    OBVIOUS
  <2>. QED
    BY <1>2, <2>1 DEF Passing
<1>6. Passing(L, W, Handed', S, C, frameId)
  BY <1>2, <1>5
<1>7. Passing(L', W', Handed', S', C', frameId')
  BY <1>1, <1>6
<1>8. ~lastError' /\ ~Doomed' => Whole(L', W', S', C', frameId')
  BY <1>1, <1>2
<1>9. Signalled(value', L', K', F')
  BY <1>1, <1>2
<1>. QED
  BY <1>3, <1>4, <1>7, <1>8, <1>9 DEF NumberInv, W, S, C, F, K, L

LEMMA NumberUnchanged ==
  ASSUME NumberInv,
         UNCHANGED <<csQueue, submitQueue, submitter, finishQueue, finisher, lastError, frameQueue,
                     frame, value, lastFrame, frameId, config>>
  PROVE  NumberInv'
BY DEF NumberInv, Waiting, Last, Current, Handed, Doomed
LEMMA NumberStep == IInv /\ [Next]_vars => NumberInv'
<1>. SUFFICES ASSUME IInv, [Next]_vars PROVE NumberInv'
  OBVIOUS
<1>. DEFINE W == FrameIds(Waiting)
            S == Ids(submitQueue)
            C == Ids(csQueue)
            F == FrameIds(frameQueue)
            K == Current
            L == Last
            H == Handed
<1>0. /\ NumberInv /\ FlowInv /\ TypeInv
      /\ csQueue \in Seq(Frames) /\ submitQueue \in Seq(Frames) /\ finishQueue \in Seq(FrameRecords)
      /\ frameQueue \in Seq(FrameRecords)
  BY DEF IInv, TypeInv, QueueType, PresenterType
<1>40. /\ L \in Nat /\ value \in Nat /\ frameId \in Nat /\ lastFrame \in Nat
       /\ W \in SUBSET Nat /\ F \in SUBSET Nat /\ S \in SUBSET Nat /\ C \in SUBSET Nat
       /\ K \in SUBSET Nat /\ H \in SUBSET Nat /\ H \subseteq S
       /\ Waiting \in Seq(FrameRecords)
       /\ finisher # "idle" => Head(finishQueue) \in FrameRecords /\ Head(finishQueue).id \in Nat
  BY <1>0, NumberTypes
<1>41. /\ Rising(csQueue) /\ Rising(submitQueue) /\ FramesRising(Waiting) /\ FramesRising(frameQueue)
       /\ Passing(L, W, H, S, C, frameId)
       /\ ~lastError /\ ~Doomed => Whole(L, W, S, C, frameId)
       /\ Signalled(value, L, K, F)
       /\ ~config.wait => frame.pc = "idle" /\ value = L
       /\ finisher = "signal" => ~config.wait
  BY <1>0 DEF NumberInv
<1>42. ASSUME Rising(csQueue'), Rising(submitQueue'), FramesRising(Waiting)', FramesRising(frameQueue'),
              Passing(L', W', H', S', C', frameId'),
              ~lastError' /\ ~Doomed' => Whole(L', W', S', C', frameId'),
              Signalled(value', L', K', F'),
              ~config'.wait => frame'.pc = "idle" /\ value' = L',
              finisher' = "signal" => ~config'.wait
       PROVE  NumberInv'
  BY <1>42 DEF NumberInv
<1>1. CASE Present
  BY <1>0, <1>1, NumberUnchanged DEF Present, queueVars, fenceVars, frameVars, envVars
<1>2. CASE Check
  BY <1>0, <1>2, NumberUnchanged DEF Check, queueVars, fenceVars, frameVars, envVars
<1>3. CASE SynchronizePresent
  BY <1>0, <1>3, NumberUnchanged DEF SynchronizePresent, queueVars, fenceVars, frameVars, envVars
<1>4. CASE Acquire
  BY <1>0, <1>4, NumberUnchanged DEF Acquire, queueVars, fenceVars, frameVars
<1>6. CASE RecreateSwapChain
  BY <1>0, <1>6, NumberUnchanged DEF RecreateSwapChain, fenceVars, frameVars, envVars
<1>8. CASE CreateSwapChain
  BY <1>0, <1>8, NumberUnchanged DEF CreateSwapChain, queueVars, fenceVars, frameVars
<1>9. CASE CreateFails
  BY <1>0, <1>9, NumberUnchanged DEF CreateFails, queueVars, fenceVars, frameVars
<1>10. CASE SyncFrameLatency
  BY <1>0, <1>10, NumberUnchanged DEF SyncFrameLatency, queueVars, fenceVars, frameVars, envVars
<1>11. CASE SetCallback
  BY <1>0, <1>11, NumberUnchanged DEF SetCallback, queueVars, frameVars, envVars
<1>12. CASE InsertCallback
  BY <1>0, <1>12, NumberUnchanged DEF InsertCallback, queueVars, frameVars, envVars
<1>13. CASE Join
  BY <1>0, <1>13, NumberUnchanged DEF Join, queueVars, fenceVars, frameVars, envVars
<1>14. CASE Close
  BY <1>0, <1>14, NumberUnchanged DEF Close, queueVars, fenceVars, frameVars, envVars
<1>29. CASE UNCHANGED vars
  BY <1>0, <1>29, NumberUnchanged DEF vars, appVars, queueVars, fenceVars, frameVars, envVars
<1>5. CASE SubmitPresent
  <2>1. /\ UNCHANGED <<submitQueue, submitter, finishQueue, finisher, lastError, frameQueue, frame,
                       value, lastFrame, config>>
        /\ frameId' = IF call.repeat = 0 THEN frameId + 1 ELSE frameId
        /\ csQueue' = Append(csQueue, IF call.repeat = 0 THEN frameId' ELSE 0)
    BY <1>5 DEF SubmitPresent, frameVars, fenceVars, envVars
  <2>2. W' = W /\ S' = S /\ F' = F /\ K' = K /\ L' = L /\ H' = H /\ Doomed' = Doomed /\ Waiting' = Waiting
    BY <2>1 DEF Waiting, Last, Current, Handed, Doomed
  <2>3. CASE call.repeat = 0
    <3>1. frameId' = frameId + 1 /\ csQueue' = Append(csQueue, frameId + 1)
      BY <2>1, <2>3
    <3>2. frameId + 1 \in Frames /\ frameId + 1 # 0
      <4>1. frameId' \in Frames
        BY TypeStep DEF TypeInv, AppType
      <4>. QED
        BY <3>1, <4>1, <1>40
    <3>3. C' = C \cup {frameId + 1} /\ (Below(C, {frameId + 1}) => Rising(csQueue'))
      <4>. DEFINE y == frameId + 1
      <4>1. y \in Frames /\ y # 0 /\ csQueue' = Append(csQueue, y)
        BY <3>1, <3>2
      <4>. HIDE DEF y
      <4>2. /\ Ids(Append(csQueue, y)) = Ids(csQueue) \cup ({y} \ {0})
            /\ Below(Ids(csQueue), {y}) => Rising(Append(csQueue, y))
        BY <4>1, <1>0, <1>41, AppendIds
      <4>3. Ids(csQueue') = Ids(csQueue) \cup {y} /\ (Below(Ids(csQueue), {y}) => Rising(csQueue'))
        BY <4>1, <4>2
      <4>. QED
        BY <4>3 DEF y
    <3>. HIDE DEF W, S, C, F, K, L, H
    <3>4. /\ Passing(L, W, H, S, C \cup {frameId + 1}, frameId + 1) /\ Below(C, {frameId + 1})
          /\ Whole(L, W, S, C, frameId) => Whole(L, W, S, C \cup {frameId + 1}, frameId + 1)
      BY <1>40, <1>41, NewFrame
    <3>5. Passing(L', W', H', S', C', frameId')
      BY <2>2, <3>1, <3>3, <3>4
    <3>6. ~lastError' /\ ~Doomed' => Whole(L', W', S', C', frameId')
      BY <2>1, <2>2, <3>1, <3>3, <3>4, <1>41
    <3>. QED
      BY <2>1, <2>2, <3>3, <3>4, <3>5, <3>6, <1>41, <1>42
  <2>4. CASE call.repeat # 0
    <3>1. frameId' = frameId /\ csQueue' = Append(csQueue, 0)
      BY <2>1, <2>4
    <3>3. C' = C /\ Rising(csQueue')
      <4>. DEFINE y == 0
      <4>1. y \in Frames /\ {y} \ {0} = {} /\ ~(y # 0) /\ csQueue' = Append(csQueue, y)
        BY <3>1, FramesNat
      <4>. HIDE DEF y
      <4>2. /\ Ids(Append(csQueue, y)) = Ids(csQueue) \cup ({y} \ {0})
            /\ Rising(Append(csQueue, y))
        BY <4>1, <1>0, <1>41, AppendIds
      <4>. QED
        BY <4>1, <4>2
    <3>. HIDE DEF W, S, C, F, K, L, H
    <3>. QED
      BY <2>1, <2>2, <3>1, <3>3, <1>41, <1>42
  <2>. QED
    BY <2>3, <2>4
<1>7. CASE DestroySwapchain
  <2>1. /\ UNCHANGED <<csQueue, submitQueue, submitter, finishQueue, finisher, lastError, frame,
                       value, lastFrame, frameId, config>>
        /\ \/ UNCHANGED frameQueue
           \/ frameQueue' = Append(frameQueue, [id |-> 0, result |-> "success"])
    BY <1>7 DEF DestroySwapchain, queueVars, fenceVars, envVars
  <2>2. /\ W' = W /\ S' = S /\ C' = C /\ K' = K /\ L' = L /\ H' = H /\ Doomed' = Doomed
        /\ Waiting' = Waiting
    BY <2>1 DEF Waiting, Last, Current, Handed, Doomed
  <2>3. F' = F /\ FramesRising(frameQueue')
    <3>. DEFINE x == [id |-> 0, result |-> "success"]
    <3>1. x \in FrameRecords /\ x.id = 0
      BY FramesNat DEF FrameRecords, Results
    <3>. HIDE DEF x
    <3>2. /\ FrameIds(Append(frameQueue, x)) = FrameIds(frameQueue) \cup ({x.id} \ {0})
          /\ (x.id # 0 => Below(FrameIds(frameQueue), {x.id})) => FramesRising(Append(frameQueue, x))
      BY <3>1, <1>0, <1>41, AppendFrames
    <3>3. {x.id} \ {0} = {} /\ ~(x.id # 0)
      BY <3>1
    <3>4. FrameIds(Append(frameQueue, x)) = FrameIds(frameQueue) /\ FramesRising(Append(frameQueue, x))
      BY <3>2, <3>3
    <3>. QED
      BY <3>4, <2>1, <1>41 DEF x
  <2>. HIDE DEF W, S, C, F, K, L, H
  <2>. QED
    BY <2>1, <2>2, <2>3, <1>41, <1>42
<1>15. CASE CsPresent
  <2>. DEFINE h == Head(csQueue)
              D == {h} \ {0}
              C2 == Ids(Tail(csQueue))
  <2>1. /\ csQueue # <<>> /\ submitQueue' = Append(submitQueue, h) /\ csQueue' = Tail(csQueue)
        /\ UNCHANGED <<submitter, finishQueue, finisher, lastError, frameQueue, frame, value,
                       lastFrame, frameId, config>>
    BY <1>15 DEF CsPresent, appVars, frameVars, fenceVars, envVars
  <2>2. /\ W' = W /\ F' = F /\ K' = K /\ L' = L /\ Doomed' = Doomed /\ Waiting' = Waiting
    BY <2>1 DEF Waiting, Last, Current, Doomed
  <2>3. /\ h \in Frames /\ C = C2 \cup D /\ C' = C2 /\ Rising(csQueue')
        /\ (h # 0 => Below({h}, C2)) /\ Tail(csQueue) \in Seq(Frames)
    BY <2>1, <1>0, <1>41, TailIds
  <2>4. /\ S' = S \cup D
        /\ (h # 0 => Below(S, {h})) => Rising(submitQueue')
        /\ submitQueue # <<>> => Head(submitQueue') = Head(submitQueue)
    BY <2>1, <2>3, <1>0, <1>41, AppendIds
  <2>5. H' = H
    <3>1. submitter.pc # "idle" => submitQueue # <<>>
      BY <1>0 DEF FlowInv
    <3>. QED
      BY <3>1, <2>1, <2>4 DEF Handed
  <2>6. C2 \in SUBSET Nat /\ D \in SUBSET Nat
    BY <2>3, IdsNat, FramesNat
  <2>7. Below(D, C2)
    BY <2>3 DEF Below
  <2>. HIDE DEF W, S, C, F, K, L, H, D, C2
  <2>8. /\ Passing(L, W, H, S \cup D, C2, frameId) /\ Below(S, D)
        /\ Whole(L, W, S, C2 \cup D, frameId) => Whole(L, W, S \cup D, C2, frameId)
    BY <1>40, <1>41, <2>3, <2>6, <2>7, FrameQueued
  <2>9. h # 0 => Below(S, {h})
    BY <2>8 DEF D
  <2>10. S' = S \cup D /\ C' = C2 /\ frameId' = frameId /\ lastError' = lastError
    BY <2>1, <2>3, <2>4, <2>9
  <2>11. Rising(submitQueue')
    BY <2>4, <2>9
  <2>12. Passing(L', W', H', S', C', frameId')
    BY <2>2, <2>5, <2>8, <2>10
  <2>13. ~lastError' /\ ~Doomed' => Whole(L', W', S', C', frameId')
    BY <2>2, <2>3, <2>8, <2>10, <1>41
  <2>. QED
    BY <2>1, <2>2, <2>3, <2>11, <2>12, <2>13, <1>41, <1>42
<1>16. CASE SubmitTake
  <2>. DEFINE h == Head(submitQueue)
              D == {h} \ {0}
              S2 == Ids(Tail(submitQueue))
  <2>1. /\ submitter.pc = "idle" /\ submitQueue # <<>>
        /\ submitter' = IF lastError THEN [pc |-> "write", result |-> "lost"]
                        ELSE [pc |-> "present", result |-> "success"]
        /\ UNCHANGED <<csQueue, submitQueue, finishQueue, finisher, lastError, frameQueue, frame, value,
                       lastFrame, frameId, config>>
    BY <1>16 DEF SubmitTake, appVars, frameVars, fenceVars, envVars
  <2>2. W' = W /\ S' = S /\ C' = C /\ F' = F /\ K' = K /\ L' = L /\ Waiting' = Waiting
    BY <2>1 DEF Waiting, Last, Current
  <2>3. CASE lastError
    <3>1. Handed' = {} /\ lastError'
      BY <2>1, <2>3 DEF Handed
    <3>. QED
      BY <3>1, <2>1, <2>2, <1>41, <1>0, NumberKept
  <2>4. CASE ~lastError
    <3>1. H' = D /\ ~Doomed /\ ~Doomed' /\ H = {}
      BY <2>1, <2>4 DEF Handed, Doomed
    <3>2. S = S2 \cup D /\ h \in Frames /\ (h # 0 => Below({h}, S2)) /\ Tail(submitQueue) \in Seq(Frames)
      BY <2>1, <1>0, <1>41, TailIds
    <3>3. S2 \in SUBSET Nat /\ D \in SUBSET Nat
      BY <3>2, IdsNat, FramesNat
    <3>4. Below(D, S2) /\ \A a, b \in D : a = b
      BY <3>2 DEF Below
    <3>. HIDE DEF W, S, C, F, K, L, H, D, S2
    <3>5. Passing(L, W, H, S2 \cup D, C, frameId) /\ Whole(L, W, S2 \cup D, C, frameId)
      BY <3>1, <3>2, <2>4, <1>41
    <3>6. Passing(L, W, D, S2 \cup D, C, frameId)
      BY <3>3, <3>4, <3>5, <1>40, FrameTaken
    <3>7. Passing(L', W', H', S', C', frameId')
      BY <2>1, <2>2, <3>1, <3>2, <3>6
    <3>8. Whole(L', W', S', C', frameId')
      BY <2>1, <2>2, <3>2, <3>5
    <3>. QED
      BY <2>1, <2>2, <3>7, <3>8, <1>41, <1>42
  <2>. QED
    BY <2>3, <2>4
<1>17. CASE PresentImage
  <2>1. /\ submitter.pc = "present" /\ submitter'.pc = "write"
        /\ UNCHANGED <<csQueue, submitQueue, finishQueue, finisher, lastError, frameQueue, frame, value,
                       lastFrame, frameId, config>>
    BY <1>17 DEF PresentImage, appVars, frameVars, fenceVars
  <2>2. W' = W /\ K' = K /\ L' = L /\ Waiting' = Waiting
    BY <2>1 DEF Waiting, Last, Current
  <2>3. (H' = H \/ H' = {}) /\ ~Doomed
    BY <2>1, <1>0 DEF Handed, Doomed, FlowInv
  <2>. QED
    BY <2>1, <2>2, <2>3, <1>41, <1>0, NumberKept
<1>18. CASE SubmitStatus
  <2>1. /\ submitter.pc = "write" /\ submitter'.pc = "forward" /\ submitter'.result = submitter.result
        /\ UNCHANGED <<csQueue, submitQueue, finishQueue, finisher, lastError, frameQueue, frame, value,
                       lastFrame, frameId, config>>
    BY <1>0, <1>18 DEF SubmitStatus, appVars, frameVars, fenceVars, envVars, TypeInv, QueueType
  <2>2. W' = W /\ K' = K /\ L' = L /\ Waiting' = Waiting
    BY <2>1 DEF Waiting, Last, Current
  <2>3. H' = H /\ (Doomed => Doomed')
    BY <2>1 DEF Handed, Doomed
  <2>. QED
    BY <2>1, <2>2, <2>3, <1>41, <1>0, NumberKept
<1>19. CASE SubmitForward
  <2>. DEFINE h == Head(submitQueue)
              D == {h} \ {0}
              S2 == Ids(Tail(submitQueue))
              x == [id |-> h, result |-> submitter.result]
  <2>1. /\ submitter.pc = "forward" /\ submitter'.pc = "idle" /\ submitQueue' = Tail(submitQueue)
        /\ submitQueue # <<>>
        /\ UNCHANGED <<csQueue, finisher, frameQueue, frame, value, lastFrame, frameId, config>>
    BY <1>0, <1>19 DEF SubmitForward, FlowInv, TypeInv, QueueType, appVars, frameVars, fenceVars, envVars
  <2>2. C' = C /\ F' = F /\ K' = K /\ H' = {} /\ ~Doomed'
    BY <2>1 DEF Current, Handed, Doomed
  <2>3. /\ S = S2 \cup D /\ h \in Frames /\ (h # 0 => Below({h}, S2)) /\ Tail(submitQueue) \in Seq(Frames)
        /\ Rising(submitQueue')
    BY <2>1, <1>0, <1>41, TailIds
  <2>4. S2 \in SUBSET Nat /\ D \in SUBSET Nat /\ Below(D, S2) /\ S' = S2
    BY <2>1, <2>3, IdsNat, FramesNat DEF Below
  <2>5. CASE submitter.result = "lost"
    <3>1. lastError' /\ finishQueue' = finishQueue
      BY <1>19, <2>5 DEF SubmitForward
    <3>2. W' = W /\ L' = L /\ Waiting' = Waiting
      BY <2>1, <3>1 DEF Waiting, Last
    <3>. HIDE DEF W, S, C, F, K, L, H, D, S2
    <3>3. Passing(L, W, {}, S2, C, frameId)
      BY <2>3, <2>4, <1>40, <1>41, FrameForwarded
    <3>. QED
      BY <2>1, <2>2, <2>3, <2>4, <3>1, <3>2, <3>3, <1>41, <1>42
  <2>6. CASE submitter.result # "lost"
    <3>1. UNCHANGED lastError /\ finishQueue' = Append(finishQueue, x)
      BY <1>19, <2>6 DEF SubmitForward
    <3>2. H = D /\ ~Doomed
      BY <2>1, <2>6 DEF Handed, Doomed
    <3>3. x \in FrameRecords /\ x.id = h
      BY <2>3, <1>0 DEF FrameRecords, TypeInv, QueueType
    <3>. HIDE DEF x
    <3>4. /\ finishQueue # <<>> => /\ Head(finishQueue') = Head(finishQueue)
                                   /\ Tail(finishQueue') = Append(Tail(finishQueue), x)
      BY <3>1, <3>3, <1>0, AppendFrames
    <3>5. Waiting' = Append(Waiting, x) /\ L' = L
      BY <3>1, <3>4, <2>1, <1>0 DEF Waiting, Last, FlowInv
    <3>6. /\ W' = W \cup D
          /\ (h # 0 => Below(W, {h})) => FramesRising(Waiting')
      BY <3>3, <3>5, <1>40, <1>41, AppendFrames
    <3>. HIDE DEF W, S, C, F, K, L, H, D, S2
    <3>7. /\ Passing(L, W \cup D, {}, S2, C, frameId) /\ Below(W, D)
          /\ Whole(L, W, S2 \cup D, C, frameId) => Whole(L, W \cup D, S2, C, frameId)
      BY <2>3, <2>4, <3>2, <1>40, <1>41, FrameForwarded
    <3>8. FramesRising(Waiting')
      BY <3>6, <3>7 DEF D
    <3>9. Passing(L', W', H', S', C', frameId')
      BY <2>1, <2>2, <2>4, <3>5, <3>6, <3>7
    <3>10. ~lastError' /\ ~Doomed' => Whole(L', W', S', C', frameId')
      BY <2>1, <2>2, <2>3, <2>4, <3>1, <3>2, <3>5, <3>6, <3>7, <1>41
    <3>. QED
      BY <2>1, <2>2, <2>3, <3>5, <3>8, <3>9, <3>10, <1>41, <1>42
  <2>. QED
    BY <2>5, <2>6
<1>20. CASE SignalFrame
  <2>. DEFINE x == Head(finishQueue)
              i == x.id
              W2 == FrameIds(Tail(finishQueue))
  <2>1. /\ finisher = "idle" /\ finishQueue # <<>>
        /\ UNCHANGED <<csQueue, submitQueue, submitter, finishQueue, lastError, frame, lastFrame,
                       frameId, config>>
    BY <1>20 DEF SignalFrame, appVars, envVars
  <2>2. Waiting = finishQueue /\ L = lastFrame
    BY <2>1 DEF Waiting, Last
  <2>3. /\ x \in FrameRecords /\ i \in Nat /\ W = W2 \cup ({i} \ {0})
        /\ Tail(finishQueue) \in Seq(FrameRecords)
        /\ FramesRising(Tail(finishQueue)) /\ (i # 0 => Below({i}, W2))
    BY <2>1, <2>2, <1>0, <1>41, TailFrames, FramesNat DEF FrameRecords
  <2>4. S' = S /\ C' = C /\ K' = K /\ H' = H /\ Doomed' = Doomed
    BY <2>1 DEF Current, Handed, Doomed
  <2>5. finisher' # "idle" => Waiting' = Tail(finishQueue)
    BY <2>1 DEF Waiting
  <2>6. CASE i = 0 /\ finisher' = "pop" /\ UNCHANGED <<frameQueue, fenceVars>>
    <3>1. L' = lastFrame /\ W' = W /\ value' = value /\ FramesRising(Waiting')
      BY <2>1, <2>3, <2>5, <2>6 DEF Last, fenceVars
    <3>. QED
      BY <2>1, <2>2, <2>4, <2>6, <3>1, <1>0, <1>41, NumberKept
  <2>7. CASE i # 0 /\ finisher' \in {"store", "signal"}
    <3>1. L' = i /\ W' = W2 /\ W2 \in SUBSET Nat /\ W = W2 \cup {i} /\ Below({i}, W2)
          /\ FramesRising(Waiting')
      BY <2>1, <2>3, <2>5, <2>7, FrameIdsNat DEF Last
    <3>2. /\ i = L + 1 /\ Passing(i, W2, H, S, C, frameId)
          /\ Whole(L, W, S, C, frameId) => Whole(i, W2, S, C, frameId)
      <4>. HIDE DEF W, W2, S, C, F, K, L, H, i
      <4>1. Passing(L, W2 \cup {i}, H, S, C, frameId)
        BY <3>1, <1>41
      <4>2. i \in Nat /\ W2 \in SUBSET Nat /\ Below({i}, W2) /\ H \subseteq S
        BY <3>1, <2>3, <1>40
      <4>3. L \in Nat /\ frameId \in Nat /\ S \in SUBSET Nat /\ C \in SUBSET Nat /\ H \in SUBSET Nat
        BY <1>40
      <4>4. /\ i = L + 1 /\ Passing(i, W2, H, S, C, frameId)
            /\ Whole(L, W2 \cup {i}, S, C, frameId) => Whole(i, W2, S, C, frameId)
        BY <4>1, <4>2, <4>3, FrameFinished
      <4>. QED
        BY <4>4, <3>1
    <3>3. CASE config.wait /\ frameQueue' = Append(frameQueue, x) /\ UNCHANGED fenceVars
               /\ finisher' = "store"
      <4>1. value' = value /\ F' = F \cup {i}
            /\ (Below(F, {i}) => FramesRising(frameQueue'))
        <5>. HIDE DEF x
        <5>. QED
          BY <3>3, <2>3, <2>7, <1>0, <1>41, AppendFrames DEF fenceVars
      <4>. HIDE DEF W, W2, S, C, F, K, L, H, i, x
      <4>2. Signalled(value, L + 1, K, F \cup {L + 1}) /\ Below(F, {L + 1})
        BY <1>40, <1>41, FrameSignals
      <4>3. FramesRising(frameQueue')
        BY <4>1, <4>2, <3>2
      <4>4. Signalled(value', L', K', F')
        BY <4>1, <4>2, <3>1, <3>2, <2>4
      <4>. QED
        BY <2>1, <2>4, <3>1, <3>2, <3>3, <4>3, <4>4, <1>41, <1>42
    <3>4. CASE ~config.wait /\ value' = i /\ finisher' = "signal" /\ UNCHANGED frameQueue
      <4>1. F' = F /\ value = L /\ frame.pc = "idle"
        BY <3>4, <1>41
      <4>. HIDE DEF W, W2, S, C, F, K, L, H, i, x
      <4>2. Signalled(i, i, K, F)
        BY <1>40, <1>41, <2>3, <4>1, FrameSignals
      <4>. QED
        BY <2>1, <2>4, <3>1, <3>2, <3>4, <4>1, <4>2, <1>41, <1>42
    <3>. QED
      BY <1>20, <2>7, <3>3, <3>4 DEF SignalFrame, SignalValue
  <2>. QED
    BY <1>20, <2>6, <2>7 DEF SignalFrame
<1>21. CASE SignalFrameCallbacks
  <2>1. /\ finisher = "signal" /\ finisher' = "store" /\ value' = value
        /\ UNCHANGED <<csQueue, submitQueue, submitter, finishQueue, lastError, frameQueue, frame,
                       lastFrame, frameId, config>>
    BY <1>21 DEF SignalFrameCallbacks, RunCallbacks, appVars, frameVars, envVars
  <2>2. /\ W' = W /\ K' = K /\ L' = L /\ H' = H /\ Doomed' = Doomed /\ Waiting' = Waiting
    BY <2>1 DEF Waiting, Last, Current, Handed, Doomed
  <2>. QED
    BY <2>1, <2>2, <1>0, <1>41, NumberKept
<1>22. CASE SignalFrameStore
  <2>1. /\ finisher = "store" /\ finisher' = "pop" /\ lastFrame' = Head(finishQueue).id
        /\ UNCHANGED <<csQueue, submitQueue, submitter, finishQueue, lastError, frameQueue, frame,
                       value, frameId, config>>
    BY <1>22 DEF SignalFrameStore, appVars, frameVars, fenceVars, envVars
  <2>2. /\ W' = W /\ K' = K /\ L' = L /\ H' = H /\ Doomed' = Doomed /\ Waiting' = Waiting
    BY <2>1 DEF Waiting, Last, Current, Handed, Doomed
  <2>. QED
    BY <2>1, <2>2, <1>0, <1>41, NumberKept
<1>23. CASE FinishPop
  <2>1. /\ finisher = "pop" /\ finisher' = "idle" /\ finishQueue' = Tail(finishQueue)
        /\ UNCHANGED <<csQueue, submitQueue, submitter, lastError, frameQueue, frame,
                       value, lastFrame, frameId, config>>
    BY <1>23 DEF FinishPop, appVars, frameVars, fenceVars, envVars
  <2>2. /\ W' = W /\ K' = K /\ L' = L /\ H' = H /\ Doomed' = Doomed /\ Waiting' = Waiting
    BY <2>1 DEF Waiting, Last, Current, Handed, Doomed
  <2>. QED
    BY <2>1, <2>2, <1>0, <1>41, NumberKept
<1>24. CASE FrameTake
  <2>. DEFINE x == Head(frameQueue)
              i == x.id
              F2 == FrameIds(Tail(frameQueue))
  <2>1. /\ config.wait /\ frame.pc = "idle" /\ frameQueue # <<>> /\ frameQueue' = Tail(frameQueue)
        /\ \E p \in (IF i = 0 THEN {"gone"} ELSE {"done", "wait"}) : frame' = [pc |-> p, id |-> i]
        /\ UNCHANGED <<csQueue, submitQueue, submitter, finishQueue, finisher, lastError,
                       value, lastFrame, frameId, config>>
    BY <1>24 DEF FrameTake, appVars, queueVars, fenceVars, envVars
  <2>2. /\ W' = W /\ S' = S /\ C' = C /\ L' = L /\ H' = H /\ Doomed' = Doomed /\ Waiting' = Waiting
        /\ K = {}
    BY <2>1 DEF Waiting, Last, Current, Handed, Doomed
  <2>3. /\ i \in Nat /\ F = F2 \cup ({i} \ {0}) /\ F' = F2
        /\ Tail(frameQueue) \in Seq(FrameRecords)
        /\ FramesRising(frameQueue') /\ (i # 0 => Below({i}, F2))
    BY <2>1, <1>0, <1>41, TailFrames, FramesNat DEF FrameRecords
  <2>4. K' = {i} \ {0}
    BY <2>1 DEF Current
  <2>5. F2 \in SUBSET Nat
    BY <2>3, FrameIdsNat
  <2>. HIDE DEF W, S, C, F, K, L, H, i, x, F2
  <2>6. Signalled(value, L, {i} \ {0}, F2)
    <3>1. CASE i = 0
      <4>1. F = F2 /\ {i} \ {0} = {}
        BY <3>1, <2>3
      <4>. QED
        BY <4>1, <2>2, <1>41
    <3>2. CASE i # 0
      <4>1. F = F2 \cup {i} /\ {i} \ {0} = {i} /\ Below({i}, F2)
        BY <3>2, <2>3
      <4>2. Signalled(value, L, {}, F2 \cup {i})
        BY <4>1, <2>2, <1>41
      <4>3. Signalled(value, L, {i}, F2)
        BY <4>1, <4>2, <2>3, <2>5, <1>40, FrameSignals
      <4>. QED
        BY <4>1, <4>3
    <3>. QED
      BY <3>1, <3>2
  <2>. QED
    BY <2>1, <2>2, <2>3, <2>4, <2>6, <1>41, <1>42
<1>25. CASE FrameWaited
  <2>1. /\ frame.pc = "wait" /\ frame'.pc = "done" /\ frame'.id = frame.id
        /\ UNCHANGED <<csQueue, submitQueue, submitter, finishQueue, finisher, lastError, frameQueue,
                       value, lastFrame, frameId, config>>
    BY <1>0, <1>25 DEF FrameWaited, appVars, queueVars, fenceVars, envVars, TypeInv, PresenterType
  <2>2. /\ W' = W /\ K' = K /\ L' = L /\ H' = H /\ Doomed' = Doomed /\ Waiting' = Waiting
    BY <2>1 DEF Waiting, Last, Current, Handed, Doomed
  <2>. QED
    BY <2>1, <2>2, <1>0, <1>41, NumberKept
<1>26. CASE FrameSignal
  <2>. DEFINE i == frame.id
  <2>1. /\ frame.pc = "done" /\ frame'.pc = "signal" /\ value' = i
        /\ UNCHANGED <<csQueue, submitQueue, submitter, finishQueue, finisher, lastError, frameQueue,
                       lastFrame, frameId, config>>
    BY <1>0, <1>26 DEF FrameSignal, SignalValue, appVars, queueVars, envVars, TypeInv, PresenterType
  <2>2. /\ W' = W /\ S' = S /\ C' = C /\ F' = F /\ L' = L /\ H' = H /\ Doomed' = Doomed
        /\ Waiting' = Waiting /\ K = {i} /\ K' = {}
    BY <2>1 DEF Waiting, Last, Current, Handed, Doomed
  <2>. HIDE DEF W, S, C, F, K, L, H, i
  <2>3. i \in Nat
    BY <2>2, <1>40
  <2>4. Signalled(i, L, {}, F)
    BY <2>2, <2>3, <1>40, <1>41, FrameSignals
  <2>. QED
    BY <2>1, <2>2, <2>4, <1>41, <1>42
<1>27. CASE FrameCallbacks
  <2>1. /\ frame.pc = "signal" /\ frame'.pc = "idle" /\ value' = value
        /\ UNCHANGED <<csQueue, submitQueue, submitter, finishQueue, finisher, lastError, frameQueue,
                       lastFrame, frameId, config>>
    BY <1>27 DEF FrameCallbacks, RunCallbacks, appVars, queueVars, envVars
  <2>2. /\ W' = W /\ K' = K /\ L' = L /\ H' = H /\ Doomed' = Doomed /\ Waiting' = Waiting
    BY <2>1 DEF Waiting, Last, Current, Handed, Doomed
  <2>. QED
    BY <2>1, <2>2, <1>0, <1>41, NumberKept
<1>28. CASE Lose
  <2>1. /\ lastError => lastError'
        /\ UNCHANGED <<csQueue, submitQueue, submitter, finishQueue, finisher, frameQueue, frame,
                       value, lastFrame, frameId, config>>
    BY <1>28 DEF Lose, appVars, frameVars, fenceVars
  <2>2. /\ W' = W /\ K' = K /\ L' = L /\ H' = H /\ Doomed' = Doomed /\ Waiting' = Waiting
    BY <2>1 DEF Waiting, Last, Current, Handed, Doomed
  <2>. QED
    BY <2>1, <2>2, <1>0, <1>41, NumberKept
<1>. QED
  BY <1>1, <1>2, <1>3, <1>4, <1>5, <1>6, <1>7, <1>8, <1>9, <1>10, <1>11, <1>12, <1>13, <1>14, <1>15,
     <1>16, <1>17, <1>18, <1>19, <1>20, <1>21, <1>22, <1>23, <1>24, <1>25, <1>26, <1>27, <1>28, <1>29
     DEF Next, App, Queue, FrameThread
-----------------------------------------------------------------------------
(* Calls and callbacks                                                     *)

LEMMA CallStep == IInv /\ [Next]_vars => CallInv'
<1>. SUFFICES ASSUME IInv, [Next]_vars PROVE CallInv'
  OBVIOUS
<1>0. CallInv /\ AppType /\ frameId \in Nat /\ call.n \in Nat /\ call.repeat \in Nat /\ MaxCalls \in Nat
  BY FramesNat DEF IInv, TypeInv, AppType, Frames
<1>30. ASSUME UNCHANGED <<frameId, call>>, Unnumbered' => Unnumbered,
              Running' => Running
       PROVE  CallInv'
  BY <1>0, <1>30 DEF CallInv
<1>1. CASE Present
  <2>1. pc = "idle" /\ call.n < MaxCalls /\ call'.n = call.n + 1 /\ frameId' = frameId
    BY <1>1 DEF Present
  <2>2. frameId <= call.n
    BY <1>0 DEF CallInv
  <2>3. frameId' < call'.n /\ frameId' <= call'.n /\ call'.n \in Calls
    BY <2>1, <2>2, <1>0 DEF Calls
  <2>. QED
    BY <2>3 DEF CallInv
<1>2. CASE Check
  BY <1>2, <1>30 DEF Check, Unnumbered, Running, Goto, Recreate
<1>3. CASE SynchronizePresent
  BY <1>3, <1>30 DEF SynchronizePresent, Unnumbered, Running, Goto, Recreate
<1>4. CASE Acquire
  BY <1>4, <1>30 DEF Acquire, Unnumbered, Running, Goto, Recreate
<1>5. CASE SubmitPresent
  <2>1. /\ pc = "submit" /\ call' = [call EXCEPT !.repeat = @ + 1]
        /\ frameId' = IF call.repeat = 0 THEN frameId + 1 ELSE frameId
    BY <1>5 DEF SubmitPresent, NextRepeat
  <2>2. call'.n = call.n /\ call'.repeat # 0
    BY <2>1, <1>0 DEF AppType
  <2>3. frameId' <= call.n
    <3>1. CASE call.repeat = 0
      <4>1. frameId < call.n /\ frameId' = frameId + 1
        BY <1>0, <2>1, <3>1 DEF CallInv, Unnumbered
      <4>. QED
        BY <4>1, <1>0
    <3>2. CASE call.repeat # 0
      BY <1>0, <2>1, <3>2 DEF CallInv
    <3>. QED
      BY <3>1, <3>2
  <2>. QED
    BY <1>0, <2>1, <2>2, <2>3 DEF CallInv, Unnumbered, Running
<1>6. CASE RecreateSwapChain
  BY <1>6, <1>30 DEF RecreateSwapChain, Unnumbered, Running, Goto
<1>7. CASE DestroySwapchain
  BY <1>7, <1>30 DEF DestroySwapchain, Unnumbered, Running, Goto
<1>8. CASE CreateSwapChain
  BY <1>8, <1>30 DEF CreateSwapChain, Unnumbered, Running, Goto
<1>9. CASE CreateFails
  BY <1>9, <1>30 DEF CreateFails, Unnumbered, Running, Goto
<1>10. CASE SyncFrameLatency
  BY <1>10, <1>30 DEF SyncFrameLatency, Unnumbered, Running, Goto
<1>11. CASE SetCallback
  BY <1>11, <1>30 DEF SetCallback, Unnumbered, Running, Goto
<1>12. CASE InsertCallback
  BY <1>12, <1>30 DEF InsertCallback, Unnumbered, Running, Goto
<1>13. CASE Join
  BY <1>13, <1>30 DEF Join, Unnumbered, Running, Goto
<1>14. CASE Close
  BY <1>14, <1>30 DEF Close, Unnumbered, Running, Goto
<1>15. CASE Queue \/ FrameThread \/ Lose
  <2>1. UNCHANGED appVars
    BY <1>15 DEF Queue, CsPresent, SubmitTake, PresentImage, SubmitStatus, SubmitForward, SignalFrame,
       SignalFrameCallbacks, SignalFrameStore, FinishPop, FrameThread, FrameTake, FrameWaited,
       FrameSignal, FrameCallbacks, Lose
  <2>. QED
    BY <2>1, <1>30 DEF appVars, Unnumbered, Running
<1>16. CASE UNCHANGED vars
  BY <1>16, <1>30 DEF vars, appVars, Unnumbered, Running
<1>. QED
  BY <1>1, <1>2, <1>3, <1>4, <1>5, <1>6, <1>7, <1>8, <1>9, <1>10, <1>11, <1>12, <1>13, <1>14, <1>15,
     <1>16
     DEF Next, App

\* The frame signal is raised to the next number, by a thread that runs its callbacks then.
LEMMA ValueRises ==
  ASSUME IInv, SignalFrame \/ FrameSignal
  PROVE  value' = value \/ (value' = value + 1 /\ ~Signalling /\ Signalling')
<1>. DEFINE W == FrameIds(Waiting)
            S == Ids(submitQueue)
            C == Ids(csQueue)
            F == FrameIds(frameQueue)
            K == Current
            L == Last
            H == Handed
<1>1. /\ L \in Nat /\ value \in Nat /\ frameId \in Nat
      /\ F \in SUBSET Nat /\ S \in SUBSET Nat /\ C \in SUBSET Nat
      /\ K \in SUBSET Nat /\ H \in SUBSET Nat /\ H \subseteq S
  BY NumberTypes DEF IInv
<1>2. /\ FramesRising(Waiting) /\ Passing(L, W, H, S, C, frameId) /\ Signalled(value, L, K, F)
      /\ ~config.wait => frame.pc = "idle" /\ value = L
      /\ finisher = "signal" => ~config.wait
  BY DEF IInv, NumberInv
<1>3. CASE SignalFrame
  <2>. DEFINE i == Head(finishQueue).id
              W2 == FrameIds(Tail(finishQueue))
  <2>1. /\ finisher = "idle" /\ finishQueue # <<>>
        /\ \/ value' = value
           \/ i # 0 /\ ~config.wait /\ value' = i /\ finisher' = "signal"
    BY <1>3 DEF SignalFrame, SignalValue, fenceVars
  <2>2. SUFFICES ASSUME i # 0, ~config.wait, value' = i, finisher' = "signal"
                 PROVE  value' = value + 1 /\ ~Signalling /\ Signalling'
    BY <2>1
  <2>3. /\ i \in Nat /\ W = W2 \cup {i} /\ Below({i}, W2) /\ W2 \in SUBSET Nat
    <3>1. finishQueue \in Seq(FrameRecords) /\ Waiting = finishQueue
      BY <2>1 DEF IInv, TypeInv, QueueType, Waiting
    <3>2. /\ Head(finishQueue) \in FrameRecords /\ W = W2 \cup ({i} \ {0})
          /\ Tail(finishQueue) \in Seq(FrameRecords) /\ Below({i}, W2)
      BY <3>1, <2>1, <2>2, <1>2, TailFrames
    <3>. QED
      BY <3>2, <2>2, FrameIdsNat, FramesNat DEF FrameRecords
  <2>4. ~Signalling /\ Signalling'
    BY <2>1, <2>2, <1>2 DEF Signalling
  <2>. HIDE DEF W, S, C, F, K, L, H, i, W2
  <2>5. Passing(L, W2 \cup {i}, H, S, C, frameId)
    BY <2>3, <1>2
  <2>6. L \in Nat /\ frameId \in Nat /\ S \in SUBSET Nat /\ C \in SUBSET Nat /\ H \in SUBSET Nat
    BY <1>1
  <2>7. i \in Nat /\ W2 \in SUBSET Nat /\ Below({i}, W2) /\ H \subseteq S
    BY <1>1, <2>3
  <2>8. /\ i = L + 1 /\ Passing(i, W2, H, S, C, frameId)
        /\ Whole(L, W2 \cup {i}, S, C, frameId) => Whole(i, W2, S, C, frameId)
    BY <2>5, <2>6, <2>7, FrameFinished
  <2>. QED
    BY <2>2, <2>4, <2>8, <1>2
<1>4. CASE FrameSignal
  <2>. DEFINE i == frame.id
  <2>1. frame.pc = "done" /\ frame'.pc = "signal" /\ value' = i /\ K = {i}
    BY <1>4 DEF FrameSignal, SignalValue, Current, IInv, TypeInv, PresenterType
  <2>2. ~Signalling /\ Signalling'
    BY <2>1, <1>2 DEF Signalling
  <2>. HIDE DEF W, S, C, F, K, L, H, i
  <2>3. i \in Nat /\ Signalled(value, L, {i}, F)
    BY <2>1, <1>1, <1>2
  <2>4. i = value + 1
    BY <2>3, <1>1, FrameSignals
  <2>. QED
    BY <2>1, <2>2, <2>4
<1>. QED
  BY <1>3, <1>4
LEMMA CallbackKept ==
  ASSUME CallbackInv, UNCHANGED <<callbacks, fired, presentCount, value>>, call'.n = call.n,
         AppType, AppType', FenceType, frameId <= frameId',
         Running' => Running, Signalling => Signalling'
  PROVE  CallbackInv'
<1>1. \A c \in callbacks : c.frame \in Nat /\ c.frame <= frameId /\ frameId \in Nat /\ frameId' \in Nat
  BY FramesNat DEF CallbackInv, AppType, FenceType, CallbackRecords
<1>2. \A c \in callbacks : c.frame <= frameId'
  BY <1>1
<1>. QED
  BY <1>2 DEF CallbackInv, Running

LEMMA CallbackStep == IInv /\ [Next]_vars => CallbackInv'
<1>. SUFFICES ASSUME IInv, [Next]_vars PROVE CallbackInv'
  OBVIOUS
<1>0. /\ CallbackInv /\ CallInv /\ AppType /\ AppType' /\ FenceType
      /\ frameId \in Nat /\ value \in Nat /\ frameId <= frameId
      /\ call.n \in Nat /\ MaxCalls \in Nat
      /\ \A c \in callbacks : c.n \in Calls /\ c.n \in Nat /\ c.frame \in Nat
      /\ fired \in [Calls -> Nat]
  <2>1. CallbackInv /\ CallInv /\ AppType /\ AppType' /\ FenceType
    BY TypeStep DEF IInv, TypeInv
  <2>2. frameId \in Nat /\ value \in Nat /\ call.n \in Nat /\ MaxCalls \in Nat
    BY <2>1, FramesNat DEF AppType, FenceType
  <2>3. \A c \in callbacks : c.n \in Calls /\ c.n \in Nat /\ c.frame \in Nat
    BY <2>1, FramesNat DEF FenceType, CallbackRecords
  <2>4. frameId <= frameId /\ fired \in [Calls -> Nat]
    BY <2>1, <2>2 DEF FenceType
  <2>. QED
    BY <2>1, <2>2, <2>3, <2>4
<1>1. CASE Present
  <2>1. /\ pc = "idle" /\ call.n < MaxCalls /\ call'.n = call.n + 1
        /\ UNCHANGED <<callbacks, fired, presentCount, value, frameId, finisher, frame>>
    BY <1>1 DEF Present, fenceVars, queueVars, frameVars
  <2>2. call'.n \in Calls /\ call.n < call'.n
    BY <2>1, <1>0 DEF Calls
  <2>3. \A c \in callbacks : c.n <= call'.n /\ c.n # call'.n
    <3>1. \A c \in callbacks : c.n <= call.n
      BY <1>0 DEF CallbackInv
    <3>. QED
      BY <3>1, <2>1, <1>0
  <2>4. \A n \in Calls : n > call'.n => n > call.n
    BY <2>1, <1>0 DEF Calls
  <2>5. fired[call'.n] = 0
    BY <2>2, <1>0 DEF CallbackInv
  <2>. QED
    BY <1>0, <2>1, <2>3, <2>4, <2>5 DEF CallbackInv, Signalling
<1>2. CASE Check
  BY <1>0, <1>2, CallbackKept DEF Check, Running, Signalling, Goto, Recreate, fenceVars, queueVars, frameVars
<1>3. CASE SynchronizePresent
  BY <1>0, <1>3, CallbackKept DEF SynchronizePresent, Running, Signalling, Goto, Recreate, fenceVars,
     queueVars, frameVars
<1>4. CASE Acquire
  BY <1>0, <1>4, CallbackKept DEF Acquire, Running, Signalling, Goto, Recreate, fenceVars, queueVars, frameVars
<1>5. CASE SubmitPresent
  <2>1. /\ pc = "submit" /\ call' = [call EXCEPT !.repeat = @ + 1]
        /\ frameId' = IF call.repeat = 0 THEN frameId + 1 ELSE frameId
        /\ UNCHANGED <<callbacks, fired, presentCount, value, finisher, frame>>
    BY <1>5 DEF SubmitPresent, NextRepeat, fenceVars, frameVars
  <2>2. call'.n = call.n
    BY <2>1, <1>0 DEF AppType
  <2>3. frameId <= frameId'
    BY <2>1, <1>0
  <2>. QED
    BY <1>0, <2>1, <2>2, <2>3, CallbackKept DEF Running, Signalling
<1>6. CASE RecreateSwapChain
  BY <1>0, <1>6, CallbackKept DEF RecreateSwapChain, Running, Signalling, Goto, fenceVars, frameVars
<1>7. CASE DestroySwapchain
  BY <1>0, <1>7, CallbackKept DEF DestroySwapchain, Running, Signalling, Goto, fenceVars, queueVars
<1>8. CASE CreateSwapChain
  BY <1>0, <1>8, CallbackKept DEF CreateSwapChain, Running, Signalling, Goto, fenceVars, queueVars, frameVars
<1>9. CASE CreateFails
  BY <1>0, <1>9, CallbackKept DEF CreateFails, Running, Signalling, Goto, fenceVars, queueVars, frameVars
<1>10. CASE SyncFrameLatency
  BY <1>0, <1>10, CallbackKept DEF SyncFrameLatency, Running, Signalling, Goto, fenceVars, queueVars, frameVars
<1>11. CASE SetCallback \/ InsertCallback
  <2>1. /\ pc \in {"callback", "insert"} /\ UNCHANGED <<frameId, call, value, finisher, frame>>
        /\ \/ /\ frameId <= value /\ Counted /\ pc' = "idle" /\ UNCHANGED callbacks
           \/ /\ pc' = "insert" /\ UNCHANGED <<fired, presentCount, callbacks>>
           \/ /\ frameId > value /\ pc' = "idle" /\ UNCHANGED <<fired, presentCount>>
              /\ callbacks' = callbacks \cup {[n |-> call.n, frame |-> frameId]}
    BY <1>0, <1>11 DEF SetCallback, InsertCallback, Goto, queueVars, frameVars
  <2>2. /\ call.n \in Calls /\ fired[call.n] = 0 /\ \A c \in callbacks : c.n # call.n
    BY <1>0, <2>1 DEF CallInv, CallbackInv, Running
  <2>3. CASE frameId <= value /\ Counted /\ pc' = "idle" /\ UNCHANGED callbacks
    <3>1. /\ fired'[call.n] = 1 /\ \A n \in Calls : n # call.n => fired'[n] = fired[n]
          /\ presentCount' = frameId
      BY <1>0, <2>2, <2>3 DEF Counted
    <3>2. \A c \in callbacks : fired'[c.n] = fired[c.n]
      BY <3>1, <2>2, <1>0
    <3>3. \A n \in Calls : n > call.n => fired'[n] = fired[n]
      BY <3>1, <1>0 DEF Calls
    <3>4. \A n \in Calls : fired'[n] <= 1
      BY <3>1, <1>0 DEF CallbackInv
    <3>. QED
      BY <1>0, <2>1, <2>3, <3>1, <3>2, <3>3, <3>4 DEF CallbackInv, Signalling, Running
  <2>4. CASE pc' = "insert" /\ UNCHANGED <<fired, presentCount, callbacks>>
    BY <1>0, <2>1, <2>4, CallbackKept DEF Running, Signalling
  <2>5. CASE /\ frameId > value /\ pc' = "idle" /\ UNCHANGED <<fired, presentCount>>
             /\ callbacks' = callbacks \cup {[n |-> call.n, frame |-> frameId]}
    <3>. DEFINE b == [n |-> call.n, frame |-> frameId]
    <3>1. b.n = call.n /\ b.frame = frameId /\ callbacks' = callbacks \cup {b}
      BY <2>5
    <3>. HIDE DEF b
    <3>2. b.n <= call.n /\ b.frame <= frameId /\ value <= b.frame /\ b.frame # value
      BY <1>0, <2>5, <3>1
    <3>3. \A c \in callbacks' : c.n <= call.n /\ c.frame <= frameId /\ value <= c.frame
      BY <1>0, <3>1, <3>2 DEF CallbackInv
    <3>4. \A c \in callbacks' : c.frame = value => Signalling
      BY <1>0, <3>1, <3>2 DEF CallbackInv
    <3>5. \A c, d \in callbacks' : c.n = d.n => c = d
      BY <1>0, <2>2, <3>1 DEF CallbackInv
    <3>6. \A c \in callbacks' : fired[c.n] = 0
      BY <1>0, <2>2, <3>1 DEF CallbackInv
    <3>. QED
      BY <1>0, <2>1, <2>5, <3>3, <3>4, <3>5, <3>6 DEF CallbackInv, Signalling, Running
  <2>. QED
    BY <2>1, <2>3, <2>4, <2>5
<1>13. CASE Join
  BY <1>0, <1>13, CallbackKept DEF Join, Running, Signalling, Goto, fenceVars, queueVars, frameVars
<1>14. CASE Close
  BY <1>0, <1>14, CallbackKept DEF Close, Running, Signalling, Goto, fenceVars, queueVars, frameVars
<1>15. CASE CsPresent \/ SubmitTake \/ PresentImage \/ SubmitStatus \/ SubmitForward
            \/ SignalFrameStore \/ FinishPop \/ FrameTake \/ FrameWaited \/ Lose
  <2>1. UNCHANGED <<appVars, fenceVars>>
    BY <1>15 DEF CsPresent, SubmitTake, PresentImage, SubmitStatus, SubmitForward, SignalFrameStore,
       FinishPop, FrameTake, FrameWaited, Lose
  <2>2. Signalling => Signalling'
    <3>1. CASE CsPresent \/ SubmitTake \/ PresentImage \/ SubmitStatus \/ SubmitForward \/ Lose
      BY <3>1 DEF CsPresent, SubmitTake, PresentImage, SubmitStatus, SubmitForward, Lose, frameVars,
         Signalling
    <3>2. CASE SignalFrameStore \/ FinishPop
      BY <3>2 DEF SignalFrameStore, FinishPop, frameVars, Signalling
    <3>3. CASE FrameTake \/ FrameWaited
      BY <3>3 DEF FrameTake, FrameWaited, queueVars, Signalling
    <3>. QED
      BY <1>15, <3>1, <3>2, <3>3
  <2>. QED
    BY <1>0, <2>1, <2>2, CallbackKept DEF appVars, fenceVars, Running
<1>16. CASE SignalFrame \/ FrameSignal
  <2>1. /\ UNCHANGED <<appVars, callbacks, presentCount, fired>>
        /\ Signalling => Signalling'
    BY <1>16 DEF SignalFrame, FrameSignal, SignalValue, fenceVars, queueVars, Signalling
  <2>2. CASE value' = value
    BY <1>0, <2>1, <2>2, CallbackKept DEF appVars, Running
  <2>3. CASE value' = value + 1 /\ ~Signalling /\ Signalling'
    <3>1. \A c \in callbacks : value <= c.frame /\ c.frame # value
      BY <1>0, <2>3 DEF CallbackInv
    <3>2. \A c \in callbacks : value' <= c.frame
      BY <3>1, <2>3, <1>0
    <3>3. presentCount <= value'
      <4>1. presentCount <= value /\ presentCount \in Nat
        BY <1>0, FramesNat DEF CallbackInv, FenceType
      <4>. QED
        BY <4>1, <2>3, <1>0
    <3>. QED
      BY <1>0, <2>1, <2>3, <3>2, <3>3 DEF CallbackInv, appVars, Running
  <2>. QED
    BY <1>16, <2>2, <2>3, ValueRises
<1>17. CASE RunCallbacks /\ UNCHANGED appVars
  <2>1. \A c \in callbacks : c.frame <= value => c.frame = value
    BY <1>0 DEF CallbackInv
  <2>2. /\ fired' \in [Calls -> Nat] /\ callbacks' \subseteq callbacks /\ value' = value
        /\ \A c \in callbacks' : ~(c.frame <= value)
        /\ presentCount' = presentCount \/ presentCount' = value
        /\ \A n \in Calls : \/ fired'[n] = fired[n] /\ \A c \in callbacks : c.n = n => ~(c.frame <= value)
                            \/ fired'[n] = fired[n] + 1 /\ \E c \in callbacks : c.n = n /\ c.frame <= value
    BY <2>1, <1>17, RunCallbacksType DEF IInv
  <2>3. \A c \in callbacks' : c.frame # value
    BY <2>2, <1>0
  <2>4. \A n \in Calls : fired'[n] <= 1
    <3>1. \A n \in Calls : fired'[n] = fired[n] + 1 => fired[n] = 0 \/ fired'[n] = fired[n]
      BY <2>2, <1>0 DEF CallbackInv
    <3>. QED
      BY <2>2, <3>1, <1>0 DEF CallbackInv
  <2>5. \A c \in callbacks' : fired'[c.n] = 0
    <3>1. SUFFICES ASSUME NEW c \in callbacks' PROVE fired'[c.n] = 0
      OBVIOUS
    <3>2. c \in callbacks /\ c.n \in Calls /\ fired[c.n] = 0 /\ \A d \in callbacks : d.n = c.n => d = c
      BY <2>2, <1>0 DEF CallbackInv
    <3>3. fired'[c.n] = fired[c.n]
      BY <2>2, <3>2
    <3>. QED
      BY <3>2, <3>3
  <2>6. \A n \in Calls : (\A c \in callbacks : c.n # n) => fired'[n] = fired[n]
    BY <2>2
  <2>7. \A n \in Calls : n > call.n => fired'[n] = 0
    <3>1. \A n \in Calls : n > call.n => \A c \in callbacks : c.n # n
      <4>1. \A c \in callbacks : c.n <= call.n
        BY <1>0 DEF CallbackInv
      <4>. QED
        BY <4>1, <1>0 DEF Calls
    <3>. QED
      BY <3>1, <2>6, <1>0 DEF CallbackInv
  <2>8. Running => fired'[call.n] = 0 /\ \A c \in callbacks' : c.n # call.n
    <3>1. Running => call.n \in Calls /\ fired[call.n] = 0 /\ \A c \in callbacks : c.n # call.n
      BY <1>0 DEF Running, CallInv, CallbackInv
    <3>. QED
      BY <3>1, <2>2, <2>6
  <2>9. presentCount' <= value'
    BY <2>2, <1>0 DEF CallbackInv
  <2>10. call' = call /\ frameId' = frameId /\ pc' = pc
    BY <1>17 DEF appVars
  <2>11. \A c \in callbacks' : c.n <= call'.n /\ c.frame <= frameId' /\ value' <= c.frame
    BY <1>0, <2>2, <2>10 DEF CallbackInv
  <2>12. \A c, d \in callbacks' : c.n = d.n => c = d
    BY <1>0, <2>2 DEF CallbackInv
  <2>. QED
    BY <2>2, <2>3, <2>4, <2>5, <2>7, <2>8, <2>9, <2>10, <2>11, <2>12 DEF CallbackInv, Running
<1>18. CASE UNCHANGED vars
  BY <1>0, <1>18, CallbackKept DEF vars, Running, Signalling, appVars, fenceVars, queueVars, frameVars
<1>. QED
  BY <1>1, <1>2, <1>3, <1>4, <1>5, <1>6, <1>7, <1>8, <1>9, <1>10, <1>11, <1>13, <1>14, <1>15, <1>16,
     <1>17, <1>18
     DEF Next, App, Queue, FrameThread, SignalFrameCallbacks, FrameCallbacks

LEMMA InitInv == Init => IInv
<1>. SUFFICES ASSUME Init PROVE IInv
  OBVIOUS
<1>0. /\ pc = "idle" /\ ret = "check" /\ frameId = 0
      /\ call = [n |-> 0, interval |-> 1, repeat |-> 0, dirty |-> FALSE, test |-> FALSE]
      /\ chain = FALSE /\ acquire = "not ready" /\ lastFrame = 0
      /\ frameQueue = <<>> /\ frame = [pc |-> "idle", id |-> 0]
      /\ csQueue = <<>> /\ submitQueue = <<>> /\ finishQueue = <<>>
      /\ submitter = [pc |-> "idle", result |-> "success"] /\ finisher = "idle"
      /\ status = "success" /\ lastError = FALSE
      /\ value = 0 /\ callbacks = {} /\ presentCount = 0 /\ fired = [n \in Calls |-> 0]
  BY DEF Init
<1>1. TypeInv
  <2>0. /\ 0 \in 0 .. MaxCalls /\ \A T : <<>> \in Seq(T)
    BY FramesNat
  <2>1. AppType
    <3>1. call \in [n : 0 .. MaxCalls, interval : Nat, repeat : Nat, dirty : BOOLEAN, test : BOOLEAN]
      BY <1>0, <2>0
    <3>. QED
      BY <1>0, <3>1, FramesNat DEF AppType, Pcs
  <2>2. PresenterType
    <3>1. frame \in [pc : {"idle", "wait", "done", "signal", "gone"}, id : Frames]
      BY <1>0, FramesNat
    <3>. QED
      BY <1>0, <2>0, <3>1, FramesNat DEF PresenterType
  <2>3. QueueType
    <3>1. submitter \in [pc : {"idle", "present", "write", "forward"}, result : Results]
      BY <1>0 DEF Results
    <3>. QED
      BY <1>0, <2>0, <3>1 DEF QueueType, Results
  <2>4. FenceType
    BY <1>0, FramesNat DEF FenceType
  <2>. QED
    BY <2>1, <2>2, <2>3, <2>4 DEF TypeInv
<1>2. FlowInv
  <2>1. Len(csQueue) = 0 /\ Len(submitQueue) = 0 /\ submitter.pc = "idle"
    BY <1>0
  <2>2. Unpublished = 0
    BY <2>1 DEF Unpublished
  <2>. QED
    BY <1>0, <2>1, <2>2 DEF FlowInv, Unpresented
<1>3. /\ Ids(csQueue) = {} /\ Ids(submitQueue) = {} /\ FrameIds(Waiting) = {} /\ FrameIds(frameQueue) = {}
      /\ Rising(csQueue) /\ Rising(submitQueue) /\ FramesRising(Waiting) /\ FramesRising(frameQueue)
  <2>1. Waiting = <<>>
    BY <1>0 DEF Waiting
  <2>2. Len(<<>>) = 0 /\ 1 .. 0 = {}
    OBVIOUS
  <2>. QED
    BY <1>0, <2>1, <2>2 DEF Ids, FrameIds, Rising, FramesRising
<1>4. Handed = {} /\ Current = {} /\ Last = 0 /\ ~Doomed
  BY <1>0 DEF Handed, Current, Last, Doomed
<1>5. Passing(0, {}, {}, {}, {}, 0) /\ Whole(0, {}, {}, {}, 0) /\ Signalled(0, 0, {}, {})
  BY DEF Passing, Below, Gapless, Whole, Signalled
<1>6. NumberInv
  BY <1>0, <1>3, <1>4, <1>5 DEF NumberInv
<1>7. CallInv
  <2>1. call.n = 0 /\ frameId = 0 /\ pc = "idle"
    BY <1>0
  <2>2. frameId <= call.n /\ ~Unnumbered
    BY <2>1 DEF Unnumbered
  <2>. QED
    BY <2>1, <2>2 DEF CallInv, Running
<1>8. CallbackInv
  <2>1. \A n \in Calls : fired[n] = 0
    BY <1>0
  <2>2. callbacks = {} /\ presentCount = 0 /\ value = 0 /\ pc = "idle"
    BY <1>0
  <2>3. presentCount <= value /\ \A n \in Calls : fired[n] <= 1
    BY <2>1, <2>2
  <2>. QED
    BY <2>1, <2>2, <2>3 DEF CallbackInv, Running
<1>. QED
  BY <1>1, <1>2, <1>6, <1>7, <1>8 DEF IInv
-----------------------------------------------------------------------------
(* Theorems                                                                *)

LEMMA StepInv == IInv /\ [Next]_vars => IInv'
BY TypeStep, FlowStep, NumberStep, CallStep, CallbackStep DEF IInv

\* The types, that one present at a time is on its way to the Presenter, that the frames on
\* their way are numbered without a gap, and what is known of the calls and their callbacks.
THEOREM Invariance == Spec => []IInv
BY InitInv, StepInv, PTL DEF Spec

LEMMA KeptByInv == IInv => PresenterKept
<1>. SUFFICES ASSUME IInv PROVE PresenterKept
  OBVIOUS
<1>1. TypeOK
  <2>1. AppType /\ PresenterType /\ QueueType /\ FenceType
    BY DEF IInv, TypeInv
  <2>2. finishQueue \in Seq([id : Frames, result : Results]) /\ frameQueue \in Seq([id : Frames, result : Results])
    BY <2>1 DEF PresenterType, QueueType, FrameRecords
  <2>3. callbacks \subseteq [n : Calls, frame : Frames]
    BY <2>1 DEF FenceType, CallbackRecords
  <2>. QED
    BY <2>1, <2>2, <2>3 DEF TypeOK, AppType, PresenterType, QueueType, FenceType, Pcs
<1>2. submitter.pc = "present" => chain /\ acquire = "ok" /\ pc \notin {"image", "destroy", "create", "close"}
  <2>1. submitter.pc = "present" => status = "not ready"
    BY FlowMeans DEF IInv, TypeInv
  <2>. QED
    BY <2>1 DEF IInv, FlowInv, Unpresented
<1>3. ~chain => Awaited = {} /\ frame.pc # "wait"
  <2>1. SUFFICES ASSUME ~chain PROVE Awaited = {} /\ frame.pc # "wait"
    OBVIOUS
  <2>2. lastFrame = value /\ finisher = "idle"
    BY <2>1, FlowMeans DEF IInv, TypeInv, FlowInv
  <2>3. Last = value /\ value \in Nat
    BY <2>2, FramesNat DEF Last, IInv, TypeInv, FenceType
  <2>4. Current \cup FrameIds(frameQueue) = {}
    <3>1. Current \cup FrameIds(frameQueue) = value + 1 .. value
      BY <2>3 DEF IInv, NumberInv, Signalled
    <3>. QED
      BY <3>1, <2>3
  <2>5. frame.pc # "wait"
    BY <2>4 DEF Current
  <2>6. Awaited = {}
    <3>1. SUFFICES ASSUME NEW i \in DOMAIN frameQueue, frameQueue[i].id # 0 PROVE FALSE
      BY DEF Awaited
    <3>2. frameQueue \in Seq(FrameRecords)
      BY DEF IInv, TypeInv, PresenterType
    <3>3. i \in 1 .. Len(frameQueue)
      BY <3>1, <3>2
    <3>4. frameQueue[i].id \in FrameIds(frameQueue)
      BY <3>1, <3>3 DEF FrameIds
    <3>. QED
      BY <3>4, <2>4
  <2>. QED
    BY <2>5, <2>6
<1>. QED
  BY <1>1, <1>2, <1>3 DEF PresenterKept

\* The submit thread finds the swap chain and an acquired image, and the application's thread is
\* not in the Presenter meanwhile; a swap chain is gone only when no frame is waited for.
THEOREM PresenterIsKept == Spec => []PresenterKept
BY Invariance, KeptByInv, PTL

LEMMA OnceByInv ==
  IInv => \A n \in Calls : fired[n] + (IF n \in {c.n : c \in callbacks} THEN 1 ELSE 0) <= 1
<1>. SUFFICES ASSUME IInv, NEW n \in Calls
              PROVE  fired[n] + (IF n \in {c.n : c \in callbacks} THEN 1 ELSE 0) <= 1
  OBVIOUS
<1>1. fired[n] \in Nat /\ fired[n] <= 1
  BY DEF IInv, TypeInv, FenceType, CallbackInv
<1>2. n \in {c.n : c \in callbacks} => fired[n] = 0
  BY DEF IInv, CallbackInv
<1>. QED
  BY <1>1, <1>2

LEMMA NoneLeftByInv == IInv => \A c \in callbacks : c.frame <= value => Signalling
<1>. SUFFICES ASSUME IInv, NEW c \in callbacks, c.frame <= value PROVE Signalling
  OBVIOUS
<1>1. value \in Nat /\ c.frame \in Nat /\ value <= c.frame
  BY FramesNat DEF IInv, TypeInv, FenceType, CallbackRecords, CallbackInv
<1>2. c.frame = value
  BY <1>1
<1>. QED
  BY <1>2 DEF IInv, CallbackInv

LEMMA CountRises == IInv /\ [Next]_vars => [presentCount' >= presentCount]_vars
<1>. SUFFICES ASSUME IInv, Next PROVE presentCount' >= presentCount
  OBVIOUS
<1>1. /\ presentCount \in Nat /\ value \in Nat /\ frameId \in Nat /\ presentCount <= value
      /\ value <= frameId
  <2>1. presentCount \in Nat /\ value \in Nat /\ frameId \in Nat /\ presentCount <= value
    BY FramesNat DEF IInv, TypeInv, AppType, FenceType, CallbackInv
  <2>2. Last \in Nat /\ value <= Last /\ Last <= frameId
    BY NumberTypes DEF IInv, NumberInv, Passing, Signalled
  <2>. QED
    BY <2>1, <2>2
<1>2. UNCHANGED presentCount \/ Counted \/ RunCallbacks
  <2>1. CASE Present \/ Close \/ Lose \/ Check \/ SynchronizePresent \/ Acquire \/ SubmitPresent
             \/ RecreateSwapChain \/ DestroySwapchain \/ CreateSwapChain \/ CreateFails
             \/ SyncFrameLatency \/ Join
    BY <2>1 DEF Present, Close, Lose, Check, SynchronizePresent, Acquire, SubmitPresent,
       RecreateSwapChain, DestroySwapchain, CreateSwapChain, CreateFails, SyncFrameLatency, Join,
       fenceVars
  <2>2. CASE SetCallback \/ InsertCallback
    BY <2>2 DEF SetCallback, InsertCallback
  <2>3. CASE Queue
    BY <2>3 DEF Queue, CsPresent, SubmitTake, PresentImage, SubmitStatus, SubmitForward, SignalFrame,
       SignalFrameCallbacks, SignalFrameStore, FinishPop, SignalValue, fenceVars
  <2>4. CASE FrameThread
    BY <2>4 DEF FrameThread, FrameTake, FrameWaited, FrameSignal, FrameCallbacks, SignalValue, fenceVars
  <2>. QED
    BY <2>1, <2>2, <2>3, <2>4 DEF Next, App
<1>3. CASE RunCallbacks
  <2>1. \A c \in callbacks : c.frame <= value => c.frame = value
    <3>1. \A c \in callbacks : value <= c.frame /\ c.frame \in Nat
      BY FramesNat DEF IInv, TypeInv, FenceType, CallbackRecords, CallbackInv
    <3>. QED
      BY <3>1, <1>1
  <2>2. presentCount' = presentCount \/ presentCount' = value
    BY <1>3, <2>1, RunCallbacksType DEF IInv
  <2>. QED
    BY <2>2, <1>1
<1>4. CASE Counted
  BY <1>1, <1>4 DEF Counted
<1>5. CASE UNCHANGED presentCount
  BY <1>1, <1>5
<1>. QED
  BY <1>2, <1>3, <1>4, <1>5

\* The callback of a call runs at most once, none is left waiting for a frame that was signalled,
\* and the number of presents in the frame statistics never goes down.
THEOREM CallbacksOnce == Spec => CalledBackOnce
BY Invariance, OnceByInv, NoneLeftByInv, CountRises, PTL DEF CalledBackOnce, Spec

=============================================================================
