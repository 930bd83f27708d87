----------------------------- MODULE D3D8Batch -----------------------------
(***************************************************************************)
(* D3D8Batcher: DrawPrimitive calls are not drawn but collected, per       *)
(* primitive type, as 16-bit indices, and are drawn with                   *)
(* DrawIndexedPrimitiveUP when D3D8Device is about to change D3D9 state.   *)
(* What is drawn must be what was asked for, under the state in which it   *)
(* was asked for, and the index buffer of the application must be bound    *)
(* again afterwards.                                                       *)
(*                                                                         *)
(* All the state that a setter of D3D8Device changes on the D3D9 device is *)
(* one value, "st"; stream 0 and the index buffer are modelled apart. The  *)
(* stride is part of the identity of a stream. A vertex format is set.     *)
(*                                                                         *)
(* While the device batches, every vertex buffer is a D3D8BatchBuffer: its *)
(* vertices are in memory of its own, from which a flush draws, and the    *)
(* D3D9 buffer it wraps is null. Stream 0 of the D3D9 device is therefore  *)
(* null whatever is bound, and is no part of the model.                    *)
(***************************************************************************)
EXTENDS D3D8Objects, Integers, Sequences

CONSTANTS
  Width,          \* number of values of an index (2^16)
  Starts,         \* values of StartVertex
  MaxPrimitives,  \* bound: PrimitiveCount of a call
  MaxDraws,       \* bound: DrawPrimitive calls of the application
  States,         \* values of the D3D9 state
  Streams         \* vertex streams

ASSUME BatchSizes == /\ Width \in Nat \ {0}
                     /\ Starts \subseteq Nat
                     /\ MaxPrimitives \in Nat
                     /\ MaxDraws \in Nat
                     /\ Null \notin Streams \cup IndexBuffers

VARIABLES
  batch,          \* m_batches, per type of batch
  bound,          \* m_stream and m_indices of the batcher
  d9,             \* the D3D9 device: st and index buffer
  app,            \* m_streams[0] and m_indices of D3D8Device
  recording,      \* a state block is being recorded
  draws,          \* DrawPrimitive calls made
  \* History:
  asked,          \* vertices the pending draws of a type of batch ask for
  under,          \* states the pending draws of a type of batch were asked under
  drawn,          \* the draws of the last flush
  stale,          \* a block put another stream in effect than m_streams[0]
  spoiled         \* while recording, a batch was flushed or a stream was set; or
                  \* software vertex processing was switched with draws pending

vars == <<batch, bound, d9, app, recording, draws, asked, under, drawn, stale, spoiled>>

ListTypes == {"points", "lines", "triangles"}
Batches   == ListTypes \cup {"strip"}
PrimTypes == Batches \cup {"linestrip", "fan"}

\* The batch that a primitive type goes to, and its vertices per primitive.
BatchOf(t) == CASE t = "linestrip" -> "lines" [] t = "fan" -> "triangles" [] OTHER -> t
PerPrimitive(b) == CASE b = "points" -> 1 [] b = "lines" -> 2 [] OTHER -> 3

Empty == [on |-> FALSE, indices |-> <<>>, offset |-> 0, min |-> -1, max |-> 0, count |-> 0]

\* MinVertex starts at UINT_MAX, here -1; std::min and std::max.
Lower(m, v)  == IF m = -1 \/ v < m THEN v ELSE m
Higher(m, v) == IF v > m THEN v ELSE m

Resize(s, n) == [k \in 1..n |-> IF k <= Len(s) THEN s[k] ELSE 0]

\* The vertices of a call, in the order of a list of primitives.
Vertices(t, start, n) ==
  [k \in 1..n * PerPrimitive(BatchOf(t)) |->
     CASE t = "strip"     -> start + ((k - 1) \div 3) + ((k - 1) % 3)
       [] t = "linestrip" -> start + ((k - 1) \div 2) + ((k - 1) % 2)
       [] t = "fan"       -> IF k % 3 = 1 THEN start ELSE start + ((k - 1) \div 3) + ((k - 1) % 3)
       [] OTHER           -> start + k - 1]

\* Mutant: the vector is resized to what the call adds.
AppendShort(b, vs) ==
  [b EXCEPT !.indices = [k \in 1..b.offset + Len(vs) |->
                           IF k <= Len(vs) THEN vs[k] % Width ELSE 0],
            !.offset = @ + Len(vs)]

\* The indices and the offset after a call appended to the batch.
AppendList(b, vs) ==
  [b EXCEPT !.indices = [k \in 1..b.offset + Len(vs) |->
                           IF k <= b.offset THEN b.indices[k] ELSE vs[k - b.offset] % Width],
            !.offset = @ + Len(vs)]

\* A strip gets two indices that join it to the last one and one index per primitive. A
\* second strip reads two indices back, the value "junk" when there is one only.
AppendStrip(b, start, n, junk) ==
  LET old == Resize(b.indices, b.offset + n + 2)
      off == IF b.offset > 0 THEN b.offset + 2 ELSE 0
      Join(k) == IF b.offset > 0 /\ k = off
                 THEN IF b.offset > 1 THEN old[b.offset - 1] ELSE junk
                 ELSE old[k]
  IN  [b EXCEPT !.indices = [k \in DOMAIN old |->
                   IF k \in off + 1..off + n THEN (start + k - off - 1) % Width ELSE Join(k)],
                !.offset = off + n]

-----------------------------------------------------------------------------
Init ==
  /\ batch = [b \in Batches |-> Empty]
  /\ bound = [stream |-> Null, indices |-> Null]
  /\ d9 \in [st : States, indices : {Null}]
  /\ app = bound
  /\ recording = FALSE
  /\ draws = 0
  /\ asked = [b \in Batches |-> <<>>]
  /\ under = [b \in Batches |-> {}]
  /\ drawn = {}
  /\ stale = FALSE
  /\ spoiled = FALSE

\* The state a draw asks for; a draw that asks for the stream of a block is left out.
Asking == IF stale THEN {} ELSE {<<d9.st, app.stream>>}

\* DrawPrimitive is appended to the batch of its type, whose limits are widened by the
\* start of the call and by the last index. The application has bound a stream.
DrawPrimitive ==
  /\ draws < MaxDraws
  /\ app.stream # Null
  /\ \E t \in PrimTypes, start \in Starts, n \in 0..MaxPrimitives :
     \E junk \in IF t = "strip" /\ batch[t].offset = 1 THEN 0..Width - 1 ELSE {0} :
       LET b   == BatchOf(t)
           vs  == Vertices(t, start, n)
           new == IF t = "strip" THEN AppendStrip(batch[b], start, n, junk)
                  ELSE AppendList(batch[b], vs)
       IN  /\ t = "strip" => n > 0
           /\ batch' = [batch EXCEPT ![b] =
                [new EXCEPT !.on = TRUE, !.count = @ + n, !.min = Lower(@, start),
                            !.max = IF new.indices = <<>> THEN @
                                    ELSE Higher(@, new.indices[Len(new.indices)] + 1)]]
           /\ asked' = [asked EXCEPT ![b] = @ \o vs]
           /\ under' = [under EXCEPT ![b] = @ \cup Asking]
  /\ draws' = draws + 1
  /\ drawn' = {}
  /\ UNCHANGED <<bound, d9, app, recording, stale, spoiled>>

\* The vertex that D3D9 fetches for each index: indices are made relative to MinVertex,
\* in 16 bits, and so is the pointer to the vertices. It reads as many as the primitives have.
Fetched(t, b) ==
  [k \in 1..(IF t = "strip" THEN b.count + 2 ELSE b.count * PerPrimitive(t)) |->
     b.min + ((b.indices[k] - b.min) % Width)]

\* A batch that was flushed: the indices stay, relative, for resize to overwrite.
ResetBatch(b) == [Empty EXCEPT !.indices = [k \in DOMAIN b.indices |-> (b.indices[k] - b.min) % Width]]

Pending == {b \in Batches : batch[b].on}

\* D3D8Batcher::StateChange draws every batch, under the state the device is in and from
\* the stream that the batcher has.
FlushFrom(stream) ==
  /\ drawn' = {[type |-> b, fetched |-> Fetched(b, batch[b]),
                 first |-> batch[b].min, limits |-> batch[b].min..batch[b].max - 1,
                 count |-> batch[b].count, state |-> <<d9.st, stream>>,
                 asked |-> asked[b], under |-> under[b]] : b \in Pending}
  /\ batch' = [b \in Batches |-> IF b \in Pending THEN ResetBatch(batch[b]) ELSE batch[b]]
  /\ asked' = [b \in Batches |-> <<>>]
  /\ under' = [b \in Batches |-> {}]

Flush   == FlushFrom(bound.stream)
NoFlush == drawn' = {} /\ UNCHANGED <<batch, asked, under>>

\* The index buffer of the device after a flush: drawing a primitive unbinds it, and the
\* call that binds the batcher's again is recorded while a block is.
Flushed ==
  IF recording
  THEN IF \E b \in Pending : batch[b].count > 0 THEN [d9 EXCEPT !.indices = Null] ELSE d9
  ELSE IF Pending # {} THEN [d9 EXCEPT !.indices = bound.indices] ELSE d9

SpoiledBy(x) == spoiled' = (spoiled \/ (recording /\ x))

\* A setter that always flushes, or a call that only flushes: Present, Clear, EndScene,
\* copies of surfaces. While a block is recorded the value goes to the block.
SetState ==
  /\ Flush
  /\ \E v \in States : d9' = [Flushed EXCEPT !.st = IF recording THEN @ ELSE v]
  /\ SpoiledBy(Pending # {})
  /\ UNCHANGED <<bound, app, recording, draws, stale>>

\* A setter that flushes only if the value is new: SetRenderState, SetTexture,
\* SetRenderTarget, SetVertexShader of a format.
SetIfChanged ==
  /\ \E v \in States :
       IF v = d9.st
       THEN NoFlush /\ UNCHANGED <<d9, spoiled>>
       ELSE /\ Flush
            /\ d9' = [Flushed EXCEPT !.st = IF recording THEN @ ELSE v]
            /\ SpoiledBy(Pending # {})
  /\ UNCHANGED <<bound, app, recording, draws, stale>>

\* SetRenderState(D3DRS_SOFTWAREVERTEXPROCESSING), of a device with mixed vertex processing,
\* is the one setter that does not flush. A recorded block takes the value.
SetSoftwareVertexProcessing ==
  /\ ~recording
  /\ NoFlush
  /\ \E v \in States : /\ d9' = [d9 EXCEPT !.st = v]
                       /\ spoiled' = (spoiled \/ (v # d9.st /\ Pending # {}))
  /\ UNCHANGED <<bound, app, recording, draws, stale>>

\* Mutant: the batcher takes the new stream before it flushes.
SetStreamEarly(s) == IF bound.stream = s THEN NoFlush ELSE FlushFrom(s)

SetStream(s) == IF bound.stream = s THEN NoFlush ELSE Flush

\* SetStreamSource of stream 0 tells the batcher and the device's mirror even while a
\* block is recorded. (Another stream is state like any other.)
SetStreamSource ==
  /\ \E s \in Streams \cup {Null} :
       /\ SetStream(s)
       /\ bound' = [bound EXCEPT !.stream = s]
       /\ app' = [app EXCEPT !.stream = s]
       /\ d9' = IF bound.stream = s THEN d9 ELSE Flushed
  /\ stale' = FALSE
  /\ SpoiledBy(TRUE)
  /\ UNCHANGED <<recording, draws>>

\* Mutant: the batcher is not told of the index buffer.
SetIndicesQuietly ==
  /\ ~recording
  /\ \E i \in IndexBuffers \cup {Null} :
       app' = [app EXCEPT !.indices = i] /\ d9' = [d9 EXCEPT !.indices = i]
  /\ NoFlush
  /\ UNCHANGED <<bound, recording, draws, stale, spoiled>>

\* SetIndices goes to the recorded block alone.
SetIndices ==
  /\ ~recording
  /\ \E i \in IndexBuffers \cup {Null} :
       /\ IF bound.indices = i THEN NoFlush ELSE Flush
       /\ bound' = [bound EXCEPT !.indices = i]
       /\ app' = [app EXCEPT !.indices = i]
       /\ d9' = [(IF bound.indices = i THEN d9 ELSE Flushed) EXCEPT !.indices = i]
  /\ UNCHANGED <<recording, draws, stale, spoiled>>

\* ApplyStateBlock flushes and applies the D3D9 block, behind the back of the batcher and
\* of the mirrors, and then has D3D8Device set what the D3D8 block holds, the index buffer
\* if it has one. Nothing tells them of stream 0, which the block may have, as in
\* m_streams[0] or another. A block into whose recording a flush came has an index buffer
\* for D3D9 alone. While a block is recorded, it takes all this.
ApplyBlock ==
  /\ Flush
  /\ IF recording
     THEN d9' = Flushed /\ UNCHANGED <<bound, app, stale>>
     ELSE /\ \E v \in States :
               \/ d9' = [Flushed EXCEPT !.st = v] /\ UNCHANGED <<bound, app>>
               \/ \E i \in IndexBuffers \cup {Null} :
                    /\ d9' = [Flushed EXCEPT !.st = v, !.indices = i]
                    /\ \/ /\ bound' = [bound EXCEPT !.indices = i]
                          /\ app' = [app EXCEPT !.indices = i]
                       \/ spoiled /\ UNCHANGED <<bound, app>>
          /\ stale' \in BOOLEAN
  /\ SpoiledBy(Pending # {})
  /\ UNCHANGED <<recording, draws>>

\* DrawPrimitiveUP and DrawIndexedPrimitiveUP (of at least one primitive) leave stream 0,
\* and the index buffer, unbound; the batcher is told nothing.
DrawUP ==
  /\ Flush
  /\ \E indexed \in BOOLEAN :
       /\ app' = IF indexed THEN [stream |-> Null, indices |-> Null]
                 ELSE [app EXCEPT !.stream = Null]
       /\ d9' = IF indexed THEN [Flushed EXCEPT !.indices = Null] ELSE Flushed
  /\ stale' = FALSE
  /\ SpoiledBy(Pending # {})
  /\ UNCHANGED <<bound, recording, draws>>

\* ResetBatch drops the buffers of the device and of its mirror, not those of the batcher.
ResetDevice ==
  /\ ~recording
  /\ Flush
  /\ app' = [stream |-> Null, indices |-> Null]
  /\ \E v \in States : d9' = [st |-> v, indices |-> Null]
  /\ stale' = FALSE
  /\ UNCHANGED <<bound, recording, draws, spoiled>>

\* Neither BeginStateBlock nor EndStateBlock flushes.
BeginOrEndStateBlock ==
  /\ recording' = ~recording
  /\ drawn' = {}
  /\ UNCHANGED <<batch, bound, d9, app, draws, asked, under, stale, spoiled>>

Next == \/ DrawPrimitive \/ SetState \/ SetIfChanged \/ SetSoftwareVertexProcessing
        \/ SetStreamSource \/ SetIndices \/ ApplyBlock \/ DrawUP \/ ResetDevice
        \/ BeginOrEndStateBlock

Spec == Init /\ [][Next]_vars

-----------------------------------------------------------------------------
Buffers == [stream : Streams \cup {Null}, indices : IndexBuffers \cup {Null}]

TypeOK ==
  /\ \A b \in Batches : /\ batch[b].on \in BOOLEAN
                         /\ batch[b].offset \in 0..Len(batch[b].indices)
                         /\ \A k \in DOMAIN batch[b].indices : batch[b].indices[k] \in 0..Width - 1
                         /\ batch[b].min \in Starts \cup {-1}
                         /\ batch[b].max \in 0..Width
                         /\ batch[b].count \in Nat
  /\ bound \in Buffers /\ app \in Buffers
  /\ d9 \in [st : States, indices : IndexBuffers \cup {Null}]
  /\ recording \in BOOLEAN /\ stale \in BOOLEAN /\ spoiled \in BOOLEAN
  /\ draws \in 0..MaxDraws

Listed == {d \in drawn : d.type \in ListTypes}

\* A flush draws, of every type of primitive list, exactly the primitives asked for since
\* the last flush, in their order: no index is lost, stale or of another batch, however
\* the batches grew and were reset, as long as the vertices of a batch are less than
\* Width apart. The range of vertices handed to D3D9 has them all if their numbers are
\* less than Width. (TypeOK is its first part.)
FlushDrawsWhatWasAsked ==
  /\ TypeOK
  /\ \A d \in Listed :
       LET vs == {d.asked[k] : k \in DOMAIN d.asked}
       IN  /\ d.count * PerPrimitive(d.type) = Len(d.asked)
           /\ (\A v \in vs : v - d.first < Width) => d.fetched = d.asked
           /\ (\A v \in vs : v < Width) => vs \subseteq d.limits

\* Every draw is executed under the state, and with the vertices of the stream, that the
\* application had set when it asked for it, although it is executed in a later call. Left
\* out are draws that ask for the stream of an applied block ("stale"), and all of them
\* once a flush came into a recording or software vertex processing was switched with
\* draws pending ("spoiled").
DrawnUnderItsState == ~spoiled => \A d \in drawn : d.under \subseteq {d.state}

\* Outside of a recording the device has the index buffer that the application bound last
\* or a block restored, after any flush: for DrawIndexedPrimitive, which reads the device's.
IndicesStayBound == ~spoiled /\ app.indices # Null => d9.indices = app.indices
=============================================================================
