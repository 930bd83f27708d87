-------------------------- MODULE D3D8StateBlocks --------------------------
(***************************************************************************)
(* State blocks of the D3D8 front end. D3D8Device mirrors the shaders, the *)
(* texture and the index buffer it set on the D3D9 device; D3D8StateBlock  *)
(* wraps a D3D9StateBlock and keeps values of the mirrored state of its    *)
(* own; and while a block is recorded some calls go to the wrapper and     *)
(* some to the D3D9 recorder. The D3D9 device and its state blocks are     *)
(* modelled too: what is restored is decided by both.                      *)
(*                                                                         *)
(* One texture stage is modelled, and one field "rest" for all the state   *)
(* that D3D8 hands through (render states, constants, transforms...).      *)
(***************************************************************************)
EXTENDS D3D8Objects, Naturals

CONSTANTS
  Fvfs,           \* fixed vertex formats
  Shaders,        \* handles of CreateVertexShader: a declaration each
  Programs,       \* those of them that have a function
  PixelShaders, Textures,
  Rest,           \* values of the state that is handed through
  Blocks,         \* tokens of state blocks
  Bad,            \* a value that is no handle
  CallBound       \* bound: calls of the application

ASSUME BlockAssumption ==
  /\ Programs \subseteq Shaders
  /\ Fvfs \cap Shaders = {}
  /\ Null \notin Fvfs \cup Shaders \cup PixelShaders \cup Blocks
  /\ Bad  \notin Fvfs \cup Shaders \cup PixelShaders \cup Textures \cup {Null}
  /\ CallBound \in Nat

VARIABLES
  dev,            \* the D3D9 device's state and D3D8Device's mirrors of it
  block,          \* the state blocks that exist: block[b] is a record of
                  \*   at9, at8: value of each field captured by the D3D9 block, the wrapper
                  \*   captured:  the wrapper's values have been written
                  \*   mixed:     history, see Mixes
  recorder,       \* D3D8Device::m_recorder and D3D9DeviceEx::m_recorder
  alive,          \* pixel shaders that are not deleted
  calls,          \* calls made so far
  \* History:
  promise,        \* the D3D9 state a block has to restore
  torn            \* a block with values nobody captured, mixed, or with a deleted shader,
                  \* was applied

blocksVars == <<dev, block, recorder, alive, calls, promise, torn>>

Fields9 == {"decl", "vs", "ps", "tex", "idx", "rest"}
Fields8 == {"vs8", "ps8", "tex8", "idx8"}

VertexHandles == Fvfs \cup Shaders \cup {Null}
PixelHandles  == PixelShaders \cup {Null}

FieldType(f) ==
  CASE f \in {"decl", "vs", "vs8"} -> VertexHandles
    [] f \in {"ps", "ps8"}         -> PixelHandles
    [] f \in {"tex", "tex8"}       -> Textures \cup {Null}
    [] f \in {"idx", "idx8"}       -> IndexBuffers \cup {Null}
    [] f = "rest"                  -> Rest

\* f with the values of g where g has any, and the part of f on the fields F.
Over(f, g) == [x \in DOMAIN f \cup DOMAIN g |-> IF x \in DOMAIN g THEN g[x] ELSE f[x]]
On(F, f)   == [x \in F |-> f[x]]
None       == [x \in {} |-> Null]

-----------------------------------------------------------------------------
(* The setters of D3D8Device outside of recording: mirror and D3D9 calls. *)

\* What SetVertexShader binds: a declaration and a program, or a format; FVF 0 leaves
\* the declaration.
Binds(h) ==
  IF h = Null THEN [vs |-> Null]
              ELSE [decl |-> h, vs |-> IF h \in Programs THEN h ELSE Null]

\* A format is only set if it is not the mirrored one.
SetVertexShader(s, h) ==
  IF h = Bad \/ (h \notin Shaders /\ s.vs8 = h) THEN s
  ELSE Over([s EXCEPT !.vs8 = h], Binds(h))

\* A deleted shader is refused.
SetPixelShader(s, p) ==
  IF p \in alive \cup {Null} THEN [s EXCEPT !.ps8 = p, !.ps = p] ELSE s

\* Mutant: the mirror is not set.
SetTextureQuietly(s, t) == IF s.tex8 = t THEN s ELSE [s EXCEPT !.tex = t]

SetTexture(s, t) == IF s.tex8 = t THEN s ELSE [s EXCEPT !.tex8 = t, !.tex = t]

WithIndices(s, i) == [s EXCEPT !.idx8 = i, !.idx = i]

-----------------------------------------------------------------------------
(* State blocks. *)

\* The fields of a block of each D3DSTATEBLOCKTYPE, in the D3D9 block and the wrapper.
Types == {"all", "vertex", "pixel"}
CaptureType(type) ==
  CASE type = "all"    -> Fields9
    [] type = "vertex" -> {"decl", "vs"}
    [] type = "pixel"  -> {"ps"}
Wrapped(type) ==
  CASE type = "all"    -> Fields8
    [] type = "vertex" -> {"vs8"}
    [] type = "pixel"  -> {"ps8"}

\* The D3D9 state that a mirror stands for.
Stands(f) ==
  CASE f = "vs8"  -> {"decl", "vs"}
    [] f = "ps8"  -> {"ps"}
    [] f = "tex8" -> {"tex"}
    [] f = "idx8" -> {"idx"}

\* What a block of the fields F9 and F8 promises when it captures the state s. FVF 0 is
\* no format: nothing (Bad) is promised of the declaration.
Promised(F9, F8, s) ==
  On(F9 \cup UNION {Stands(f) : f \in F8}, IF s.vs8 = Null THEN [s EXCEPT !.decl = Bad] ELSE s)
Means(h) == Over([decl |-> Bad], Binds(h))

\* What D3D9StateBlock::Apply sets: a declaration that is null is skipped.
Sent(at9) == On({f \in DOMAIN at9 : f = "decl" => at9[f] # Null}, at9)

\* What the wrapper of b may hold: handles that were never written are anything.
Unwritten(at8, h, p) ==
  Over(at8, On(DOMAIN at8 \cap {"vs8", "ps8"}, [vs8 |-> h, ps8 |-> p]))
Held(b) ==
  IF block[b].captured THEN {block[b].at8}
  ELSE {Unwritten(block[b].at8, h, p) : h \in VertexHandles \cup {Bad}, p \in PixelHandles \cup {Bad}}

\* D3D8StateBlock::Apply: the D3D9 block first, then the setters of the device.
Applied(s, at9, at8) ==
  LET Has(f) == f \in DOMAIN at8
      s0 == Over(s, Sent(at9))
      s1 == IF Has("vs8")  THEN SetVertexShader(s0, at8.vs8) ELSE s0
      s2 == IF Has("ps8")  THEN SetPixelShader(s1, at8.ps8)  ELSE s1
      s3 == IF Has("tex8") THEN SetTexture(s2, at8.tex8)     ELSE s2
  IN  IF Has("idx8") THEN WithIndices(s3, at8.idx8) ELSE s3

-----------------------------------------------------------------------------
BlocksInit ==
  /\ dev \in {s \in [Fields9 \cup Fields8 -> {Null} \cup Rest] :
                s.rest \in Rest /\ \A f \in DOMAIN s \ {"rest"} : s[f] = Null}
  /\ block = None
  /\ recorder = Null
  /\ alive = PixelShaders
  /\ calls = 0
  /\ promise = [b \in Blocks |-> None]
  /\ torn = FALSE

\* The wrapper of b gets values in8, and its D3D9 block keeps others for the same state,
\* which ApplyStateBlock has recorded there: the setters go to the wrapper alone, and when b
\* is applied the ones that return early may leave those in force.
Mixes(b, in9, in8, means) ==
  \E f \in DOMAIN in8 \cap {"vs8", "tex8"} :
    \E g \in (Stands(f) \cap DOMAIN block[b].at9) \ DOMAIN in9 : means[g] # Bad

\* The values in9 and in8 are recorded, which stand for the state `means'.
Recorded(in9, in8, means) ==
  /\ block' = [block EXCEPT ![recorder] =
                 [at9 |-> Over(@.at9, in9), at8 |-> Over(@.at8, in8), captured |-> TRUE,
                  mixed |-> @.mixed \/ Mixes(recorder, in9, in8, means)]]
  /\ promise' = [promise EXCEPT ![recorder] = Over(@, means)]

Call == calls < CallBound /\ calls' = calls + 1

Complete == DOMAIN block \ {recorder}

\* A setter that leaves the state s. While a block is recorded the D3D9 recorder gets
\* the values in9, or the wrapper in8, and the block will restore what they mean.
Set(s, in9, in8, means) ==
  /\ Call
  /\ IF recorder = Null
     THEN dev' = s /\ UNCHANGED <<block, promise>>
     ELSE dev' = dev /\ Recorded(in9, in8, means)
  /\ UNCHANGED <<recorder, alive, torn>>

AppSetVertexShader ==
  \E h \in VertexHandles : Set(SetVertexShader(dev, h), None, [vs8 |-> h], Means(h))
AppSetPixelShader ==
  \E p \in alive \cup {Null} : Set(SetPixelShader(dev, p), None, [ps8 |-> p], [ps |-> p])
AppSetTexture ==
  \E t \in Textures \cup {Null} : Set(SetTexture(dev, t), None, [tex8 |-> t], [tex |-> t])
AppSetIndices ==
  \E i \in IndexBuffers \cup {Null} : Set(WithIndices(dev, i), None, [idx8 |-> i], [idx |-> i])
AppSetRest ==
  \E v \in Rest : Set([dev EXCEPT !.rest = v], [rest |-> v], None, [rest |-> v])

\* DrawIndexedPrimitiveUP, recording or not, leaves no index buffer. The application
\* draws something and has set a vertex format.
DrawIndexedPrimitiveUP ==
  /\ dev.decl # Null
  /\ Call
  /\ dev' = [dev EXCEPT !.idx8 = Null, !.idx = Null]
  /\ UNCHANGED <<block, recorder, alive, promise, torn>>

\* Reset drops the texture, the index buffer and what D3D9 resets, and keeps the shaders
\* and the declaration. The application does not reset while it records a block.
Reset ==
  /\ recorder = Null
  /\ Call
  /\ \E v \in Rest :
       dev' = [dev EXCEPT !.tex8 = Null, !.tex = Null, !.idx8 = Null, !.idx = Null, !.rest = v]
  /\ UNCHANGED <<block, recorder, alive, promise, torn>>

\* A deleted shader stays bound on the D3D9 device, which holds a reference.
DeletePixelShader ==
  /\ Call
  /\ \E p \in alive : alive' = alive \ {p}
  /\ UNCHANGED <<dev, block, recorder, promise, torn>>

\* The D3D9 block captures as it is created; the wrapper only knows its fields. Its
\* textures and index buffer are null, its shaders not initialized.
CreateStateBlock ==
  /\ Call
  /\ \E b \in Blocks \ DOMAIN block, type \in Types :
       /\ block' = Over(block, [x \in {b} |->
            [at9 |-> On(CaptureType(type), dev),
             at8 |-> On(Wrapped(type), [f \in Fields8 |-> Null]),
             captured |-> FALSE, mixed |-> FALSE]])
       /\ promise' = [promise EXCEPT ![b] = Promised(CaptureType(type), Wrapped(type), dev)]
  /\ UNCHANGED <<dev, recorder, alive, torn>>

\* Mutant: the wrapper leaves capturing to the D3D9 block.
CaptureOnly9 ==
  /\ Call
  /\ \E b \in Complete :
       /\ block' = [block EXCEPT ![b] =
            [@ EXCEPT !.at9 = On(DOMAIN @, dev), !.captured = TRUE, !.mixed = FALSE]]
       /\ promise' = [promise EXCEPT
            ![b] = Promised(DOMAIN block[b].at9, DOMAIN block[b].at8, dev)]
  /\ UNCHANGED <<dev, recorder, alive, torn>>

CaptureStateBlock ==
  /\ Call
  /\ \E b \in Complete :
       /\ block' = [block EXCEPT ![b] =
            [at9 |-> On(DOMAIN @.at9, dev), at8 |-> On(DOMAIN @.at8, dev),
             captured |-> TRUE, mixed |-> FALSE]]
       /\ promise' = [promise EXCEPT
            ![b] = Promised(DOMAIN block[b].at9, DOMAIN block[b].at8, dev)]
  /\ UNCHANGED <<dev, recorder, alive, torn>>

\* A block is applied to the device, or to the block that is being recorded.
ApplyTo(b) ==
  /\ Call
  /\ b \in Complete
  /\ \E at8 \in Held(b) :
       IF recorder = Null
       THEN dev' = Applied(dev, block[b].at9, at8) /\ UNCHANGED <<block, promise>>
       ELSE dev' = dev /\ Recorded(Sent(block[b].at9), at8, promise[b])
  /\ torn' = (torn \/ ~block[b].captured \/ block[b].mixed
                   \/ (/\ "ps8" \in DOMAIN block[b].at8
                       /\ block[b].at8.ps8 \notin alive \cup {Null}))
  /\ UNCHANGED <<recorder, alive>>

ApplyStateBlock == \E b \in Blocks : ApplyTo(b)

DeleteStateBlock ==
  /\ recorder = Null
  /\ Call
  /\ \E b \in DOMAIN block :
       /\ block' = On(DOMAIN block \ {b}, block)
       /\ promise' = [promise EXCEPT ![b] = None]
  /\ UNCHANGED <<dev, recorder, alive, torn>>

BeginStateBlock ==
  /\ recorder = Null
  /\ Call
  /\ \E b \in Blocks \ DOMAIN block :
       /\ recorder' = b
       /\ block' = Over(block, [x \in {b} |-> [at9 |-> None, at8 |-> None, captured |-> TRUE,
                                              mixed |-> FALSE]])
  /\ UNCHANGED <<dev, alive, promise, torn>>

EndStateBlock ==
  /\ recorder # Null
  /\ Call
  /\ recorder' = Null
  /\ UNCHANGED <<dev, block, alive, promise, torn>>

BlocksNext ==
  \/ AppSetVertexShader \/ AppSetPixelShader \/ AppSetTexture \/ AppSetIndices
  \/ AppSetRest \/ DrawIndexedPrimitiveUP \/ Reset \/ DeletePixelShader
  \/ CreateStateBlock \/ CaptureStateBlock \/ ApplyStateBlock \/ DeleteStateBlock
  \/ BeginStateBlock \/ EndStateBlock

BlocksSpec == BlocksInit /\ [][BlocksNext]_blocksVars

-----------------------------------------------------------------------------
\* A wrapper whose shaders were never written may hold anything there.
Values(f) == FieldType(f) \cup {x \in {Bad} : f \in {"vs8", "ps8"}}
PartOf(F, g) == DOMAIN g \subseteq F /\ \A f \in DOMAIN g : g[f] \in Values(f)

BlocksTypeOK ==
  /\ DOMAIN dev = Fields9 \cup Fields8 /\ \A f \in DOMAIN dev : dev[f] \in FieldType(f)
  /\ DOMAIN block \subseteq Blocks
  /\ \A b \in DOMAIN block : /\ PartOf(Fields9, block[b].at9)
                             /\ PartOf(Fields8, block[b].at8)
                             /\ {block[b].captured, block[b].mixed} \subseteq BOOLEAN
  /\ recorder \in DOMAIN block \cup {Null}
  /\ alive \subseteq PixelShaders
  /\ calls \in 0..CallBound
  /\ torn \in BOOLEAN

\* The mirrors that D3D8Device has of the vertex and pixel shader, the texture and the
\* index buffer agree with the D3D9 device after any calls, so that SetTexture's and
\* SetVertexShader's early return on an unchanged value is right: as long as only blocks
\* are applied that were captured or recorded, name no deleted shader and are not mixed.
\* The mirror of the vertex streams is not among them. (BlocksTypeOK is its first part.)
MirrorAgrees ==
  /\ BlocksTypeOK
  /\ ~torn => /\ \A f \in DOMAIN Binds(dev.vs8) : dev[f] = Binds(dev.vs8)[f]
              /\ dev.ps = dev.ps8
              /\ dev.tex = dev.tex8
              /\ dev.idx = dev.idx8

Restores(b) == \A f \in DOMAIN promise[b] : promise[b][f] \in {Bad, dev'[f]}

\* After ApplyStateBlock the D3D9 device has again every piece of state that the block
\* captured last, or that was recorded into it: whatever was set, reset, recorded or
\* applied in between, and although both layers restore a part of it. Excepted is what
\* `torn' excepts: of a mixed block the early returns of the setters can leave the value
\* that another block recorded into it, and the mirrors with the one that was set.
ApplyRestoresCapture ==
  [][\A b \in Blocks : ApplyTo(b) /\ recorder = Null /\ ~torn' => Restores(b)]_blocksVars
=============================================================================
