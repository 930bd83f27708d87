----------------------------- MODULE RenderPass -----------------------------
(***************************************************************************)
(* How DxvkContext puts off clears and layout transitions: clears that do   *)
(* not hit the current render pass are deferred until the next one starts   *)
(* or their image is used, and a suspended render pass leaves its           *)
(* attachments in the layouts they were rendered in, noted in m_rtLayouts.  *)
(*                                                                         *)
(* The context runs on the CS thread; every operation is one step. Commands *)
(* take effect as they are recorded: barriers are in force at once, since   *)
(* the code records pending ones before an image is used again. An image is *)
(* a set of subresources, here array layers, its size their number.         *)
(***************************************************************************)
EXTENDS Integers, Sequences, FiniteSets

CONSTANTS
  Views,       \* render target views: records of image, subs, aspects, type and format
  Targets,     \* what is bound: functions from slots to records of view and layout
  Shared,      \* images that are shared with other processes
  Values,      \* contents of a subresource
  Undef,       \* undefined contents
  MaxCalls     \* bound: calls that record something

Subs(v) == {v.image} \X v.subs
Overlap(v, w) == Subs(v) \cap Subs(w) # {}

\* A view has all aspects of its image: planar formats are left out. No two attachments
\* overlap: D3D11 binds nothing then (TestRtvUavHazards), in D3D9 it is the application's error.
ASSUME RenderPassAssumption ==
  /\ \A v \in Views : /\ DOMAIN v = {"image", "subs", "aspects", "type", "format"}
                      /\ v.subs # {} /\ IsFiniteSet(v.subs)
                      /\ \A w \in Views : v.image = w.image => v.aspects = w.aspects
  /\ \A t \in Targets : \A i \in DOMAIN t :
       /\ t[i].view \in Views /\ t[i].layout \in {"attachment", "depth", "read only"}
       /\ \A j \in DOMAIN t : j # i => ~Overlap(t[i].view, t[j].view)
  /\ Undef \notin Values
  /\ MaxCalls \in Nat

VARIABLES
  ctx,         \* the context and the images, see ContextInit
  promised,    \* what the images hold once everything asked for is executed
  calls

renderVars == <<ctx, promised, calls>>

Subresources == UNION {{v.image} \X v.subs : v \in Views}
Cells == UNION {{v.image} \X v.subs \X v.aspects : v \in Views}

CellsOf(v, aspects) == {v.image} \X v.subs \X aspects

ContextInit ==
  /\ ctx = [pass     |-> "none",      \* GpRenderPassBound, GpRenderPassSuspended
            targets  |-> <<>>,        \* m_state.om.renderTargets
            dirty    |-> TRUE,        \* GpDirtyFramebuffer
            fb       |-> <<>>,        \* m_state.om.framebufferInfo
            rt       |-> <<>>,        \* m_rtLayouts, of the slots of fb
            ops      |-> <<>>,        \* clears folded into m_state.om.renderPassOps
            deferred |-> <<>>,        \* m_deferredClears
            content  |-> [c \in Cells |-> Undef],
            layout   |-> [x \in Subresources |-> "default"],
            valid    |-> TRUE,        \* every image was used as it is, see Barriers and Used
            stray    |-> FALSE]       \* see PerformClear
  /\ promised = [c \in Cells |-> Undef]
  /\ calls = 0

-----------------------------------------------------------------------------
(* Barriers                                                                *)

\* Every move takes a view from an old layout to a new one.
Barriers(s, moves) ==
  LET Of(x) == {m \in moves : x \in Subs(m.view)}
  IN [s EXCEPT
       !.layout = [x \in Subresources |-> IF Of(x) = {} THEN @[x] ELSE (CHOOSE m \in Of(x) : TRUE).new],
       !.content = [c \in Cells |->
                      IF \E m \in Of(<<c[1], c[2]>>) : m.old = "undefined" THEN Undef ELSE @[c]],
       !.valid = @ /\ \A m \in moves : \A x \in Subs(m.view) : m.old \in {"undefined", s.layout[x]}]

Move(v, old, new) == [view |-> v, old |-> old, new |-> new]

\* transitionColorAttachment, transitionDepthAttachment
ToDefault(s, slots) ==
  [Barriers(s, {Move(s.fb[i].view, s.rt[i], "default") : i \in slots})
     EXCEPT !.rt = [i \in DOMAIN @ |-> IF i \in slots THEN "default" ELSE @[i]]]

\* A command outside a render pass uses subresources xs: they are in their default layout and
\* no clear of them is pending.
Used(s, xs) ==
  [s EXCEPT !.valid = /\ @
                      /\ \A x \in xs : s.layout[x] = "default"
                      /\ \A i \in DOMAIN s.deferred : Subs(s.deferred[i].view) \cap xs = {}]

Written(content, cells, x) == [c \in Cells |-> IF c \in cells THEN x ELSE content[c]]

Copied(content, dst, src) ==
  [c \in Cells |-> IF <<c[1], c[2]>> = dst THEN content[<<src[1], src[2], c[3]>>] ELSE content[c]]

-----------------------------------------------------------------------------
(* DxvkFramebufferInfo and DxvkImageView                                   *)

Matches(v, w) == Subs(v) = Subs(w) /\ v.type = w.type /\ v.format = w.format

\* The first n layers of a view.
Layers(v, n) == {l \in v.subs : Cardinality({k \in v.subs : k < l}) < n}

IsFullSize(fb, v) ==
  /\ DOMAIN fb # {}
  /\ \A i \in DOMAIN fb : Cardinality(v.subs) <= Cardinality(fb[i].view.subs)
  /\ \E i \in DOMAIN fb : Cardinality(v.subs) = Cardinality(fb[i].view.subs)

RenderLayers(fb) ==
  CHOOSE n \in {Cardinality(fb[i].view.subs) : i \in DOMAIN fb} :
    \A i \in DOMAIN fb : n <= Cardinality(fb[i].view.subs)

\* The slot of an attachment that a clear of v can be part of, or none.
Attachment(fb, v) ==
  IF IsFullSize(fb, v) THEN {i \in DOMAIN fb : Matches(fb[i].view, v)} ELSE {}

WritableAspects(a) ==
  CASE a.layout = "attachment" -> a.view.aspects
    [] a.layout = "depth"      -> a.view.aspects \cap {"depth"}
    [] a.layout = "read only"  -> {}

-----------------------------------------------------------------------------
(* Deferred clears                                                         *)

Covers(e) == e.clear \cup e.discard = e.view.aspects

Hits(e, c)   == c \in CellsOf(e.view, e.clear \cup e.discard)
Result(e, c) == IF c[3] \in e.clear THEN e.value[c[3]] ELSE Undef

\* What the images hold after a set of clears that do not overlap.
Cleared(content, clears) ==
  [c \in Cells |-> LET due == {e \in clears : Hits(e, c)}
                   IN IF due = {} THEN content[c] ELSE Result(CHOOSE e \in due : TRUE, c)]

\* performClear with a render pass of its own. Old contents are dropped if all is cleared.
ClearSeparately(s, e, old, new) ==
  LET t == Barriers(s, {Move(e.view, IF Covers(e) THEN "undefined" ELSE old, "attachment")})
  IN Barriers([t EXCEPT !.content = Cleared(@, {e})], {Move(e.view, "attachment", new)})

\* performClear. A clear that is not folded into the render pass takes its image for being in
\* the default layout, and leaves it there: a stray one, since an attachment it overlaps is not.
PerformClear(s, e, slots) ==
  IF slots = {}
  THEN LET t == ClearSeparately(s, e, "default", "default")
       IN [t EXCEPT !.stray = \/ @
                              \/ \E i \in DOMAIN s.fb : /\ Overlap(s.fb[i].view, e.view)
                                                        /\ s.rt[i] # "default"]
  ELSE LET i == CHOOSE j \in slots : TRUE
       IN IF e.clear \cup e.discard \subseteq WritableAspects(s.fb[i])
          THEN [s EXCEPT !.ops = [j \in DOMAIN @ \cup {i} |-> IF j = i THEN e ELSE @[j]]]
          ELSE [ClearSeparately(s, e, s.rt[i], s.fb[i].layout) EXCEPT !.rt[i] = s.fb[i].layout]

\* Entry e of the deferred clears is executed, or stays.
Execute(s, e, images, useRenderPass) ==
  IF e.view.image \in images
  THEN PerformClear(s, e, IF useRenderPass THEN Attachment(s.fb, e.view) ELSE {})
  ELSE [s EXCEPT !.deferred = Append(@, e)]

\* The deferred clears of some images are executed, in their order.
PerformClears(s, images, useRenderPass) ==
  LET after[n \in 0..Len(s.deferred)] ==
        IF n = 0 THEN [s EXCEPT !.deferred = <<>>]
        ELSE Execute(after[n - 1], s.deferred[n], images, useRenderPass)
  IN after[Len(s.deferred)]

FlushClears(s, useRenderPass) == PerformClears(s, {v.image : v \in Views}, useRenderPass)

\* spillRenderPass, with suspend or without.
SuspendRenderPass(s) == IF s.pass = "bound" THEN [s EXCEPT !.pass = "suspended"] ELSE s

EndRenderPass(s) ==
  LET ended == IF s.pass = "none" THEN s ELSE ToDefault([s EXCEPT !.pass = "none"], DOMAIN s.fb)
  IN IF s.pass = "bound" THEN ended ELSE FlushClears(ended, FALSE)

\* Entry e becomes one with that of the same view, or the last one. Others that overlap it are
\* executed, with all that is deferred.
Merged(old, e) ==
  [view    |-> e.view,
   discard |-> (old.discard \ e.clear) \cup e.discard,
   clear   |-> (old.clear \ e.discard) \cup e.clear,
   value   |-> [a \in (old.clear \ e.discard) \cup e.clear |->
                  IF a \in e.clear THEN e.value[a] ELSE old.value[a]]]

Defer(s, e) ==
  LET d == s.deferred
      hits == {k \in DOMAIN d : Overlap(d[k].view, e.view)}
      first == CHOOSE k \in hits : \A j \in hits : k <= j
  IN IF hits = {} THEN [s EXCEPT !.deferred = Append(d, e)]
     ELSE IF Matches(d[first].view, e.view)
     THEN [s EXCEPT !.deferred[first] = Merged(d[first], e)]
     ELSE LET t == EndRenderPass(s)
          IN [t EXCEPT !.deferred = Append(@, e)]

Deferred(s) == {s.deferred[k] : k \in DOMAIN s.deferred}

ClearEntry(v, aspects, x) ==
  [view |-> v, discard |-> {}, clear |-> aspects, value |-> [a \in aspects |-> x]]

DiscardEntry(v) ==
  [view |-> v, discard |-> v.aspects, clear |-> {}, value |-> <<>>]

-----------------------------------------------------------------------------
(* Render passes                                                           *)

\* Mutant: attachments that are not bound any more keep the layout of the suspended pass.
UpdateFramebufferOnly(s) ==
  IF ~s.dirty THEN s
  ELSE LET t == SuspendRenderPass(s)
           Old(v) == {i \in DOMAIN t.fb : Subs(t.fb[i].view) = Subs(v)}
       IN [t EXCEPT !.dirty = FALSE,
                    !.fb = t.targets,
                    !.rt = [j \in DOMAIN t.targets |->
                              LET old == Old(t.targets[j].view)
                              IN IF old = {} THEN "default" ELSE t.rt[CHOOSE i \in old : TRUE]]]

\* An attachment that the new framebuffer has, too, in whatever slot and format, stays in its
\* layout.
UpdateFramebuffer(s) ==
  IF ~s.dirty THEN s
  ELSE LET t == SuspendRenderPass(s)
           Old(v) == {i \in DOMAIN t.fb : Subs(t.fb[i].view) = Subs(v)}
           gone == {i \in DOMAIN t.fb :
                      \A j \in DOMAIN t.targets : Subs(t.targets[j].view) # Subs(t.fb[i].view)}
           u == IF t.pass = "suspended" THEN ToDefault(t, gone) ELSE t
       IN [u EXCEPT !.dirty = FALSE,
                    !.fb = t.targets,
                    !.rt = [j \in DOMAIN t.targets |->
                              LET old == Old(t.targets[j].view)
                              IN IF old = {} THEN "default" ELSE t.rt[CHOOSE i \in old : TRUE]]]

\* Mutant: deferred clears are left for the next render pass.
PrepareImageOnly(s, image, subs, flushClears) ==
  IF s.pass # "suspended" THEN s
  ELSE ToDefault(s, {i \in DOMAIN s.fb : Subs(s.fb[i].view) \cap ({image} \X subs) # {}})

\* The image may be used outside the render pass.
PrepareImage(s, image, subs, flushClears) ==
  LET t == IF flushClears /\ s.deferred # <<>> THEN EndRenderPass(s) ELSE s
  IN IF t.pass # "suspended" THEN t
     ELSE ToDefault(t, {i \in DOMAIN t.fb : Subs(t.fb[i].view) \cap ({image} \X subs) # {}})

\* The render pass proper, once the deferred clears are part of it or executed.
Begin(s) ==
  LET Load(i) == IF i \in DOMAIN s.ops /\ Covers(s.ops[i]) THEN "undefined" ELSE s.rt[i]
  IN [Barriers(s, {Move(s.fb[i].view, Load(i), s.fb[i].layout) : i \in DOMAIN s.fb}) EXCEPT
       !.pass = "bound",
       !.content = Cleared(@, {s.ops[i] : i \in DOMAIN s.ops}),
       !.rt = [i \in DOMAIN s.fb |-> s.fb[i].layout],
       !.ops = <<>>]

StartRenderPass(s) == IF s.pass = "bound" THEN s ELSE Begin(FlushClears(s, TRUE))

-----------------------------------------------------------------------------
(* Operations                                                              *)

Do(s, promise) ==
  /\ calls < MaxCalls /\ calls' = calls + 1
  /\ ctx' = s
  /\ promised' = promise

BindRenderTargets ==
  /\ \E t \in Targets : ctx' = [ctx EXCEPT !.targets = t, !.dirty = (t # ctx.fb)]
  /\ UNCHANGED <<promised, calls>>

\* A clear is part of the render pass that is bound if it has the view as an attachment.
ClearRenderTarget ==
  \E v \in Views, x \in Values : \E aspects \in SUBSET v.aspects \ {{}} :
    LET slots == Attachment(ctx.fb, v)
        writable == \A i \in slots : aspects \subseteq WritableAspects(ctx.fb[i])
        s == IF slots = {} THEN PrepareImage(SuspendRenderPass(ctx), v.image, v.subs, FALSE)
             ELSE IF writable THEN ctx ELSE SuspendRenderPass(ctx)
        cells == CellsOf(v, aspects)
    IN Do(IF s.pass = "bound" THEN [s EXCEPT !.content = Written(@, cells, x)]
          ELSE Defer(s, ClearEntry(v, aspects, x)), Written(promised, cells, x))

DiscardImageView ==
  \E v \in Views : Do(Defer(SuspendRenderPass(ctx), DiscardEntry(v)),
                      Written(promised, CellsOf(v, v.aspects), Undef))

\* clearImageViewFb: a part of the view is cleared at once.
ClearImageView ==
  \E v \in Views, x \in Values :
    LET s == UpdateFramebuffer(ctx)
        slots == {i \in Attachment(s.fb, v) : v.aspects \subseteq WritableAspects(s.fb[i])}
        cells == CellsOf(v, v.aspects)
        t == IF slots # {} THEN StartRenderPass(s)
             ELSE Barriers(EndRenderPass(s), {Move(v, "default", "default")})
    IN Do([t EXCEPT !.content = Written(@, cells, x)], Written(promised, cells, x))

\* commitGraphicsState and a draw, which may write any of the attachments.
Draw ==
  LET s == StartRenderPass(UpdateFramebuffer(ctx))
  IN \E slots \in SUBSET DOMAIN s.fb, x \in Values :
       LET cells == UNION {{s.fb[i].view.image} \X Layers(s.fb[i].view, RenderLayers(s.fb))
                             \X WritableAspects(s.fb[i]) : i \in slots}
       IN Do([s EXCEPT !.content = Written(@, cells, x)], Written(promised, cells, x))

\* commitComputeState and a dispatch, which may read and write any image.
Dispatch ==
  \E dst, src \in Subresources :
    LET s == Used(EndRenderPass(ctx), Subresources)
    IN /\ dst[1] = src[1] /\ dst # src
       /\ Do([s EXCEPT !.content = Copied(@, dst, src)], Copied(promised, dst, src))

\* copyImage. If the source waits for a clear, the destination waits for the same, with a view
\* of type 2D_ARRAY whatever that of the source is (copyImageClear).
CopyImage ==
  \E dst, src \in Subresources :
    LET s == SuspendRenderPass(ctx)
        clears == {e \in Deferred(s) : src \in Subs(e.view) /\ e.clear = e.view.aspects}
        t == PrepareImage(PrepareImage(s, dst[1], {dst[2]}, TRUE), src[1], {src[2]}, TRUE)
        View(e) == [e.view EXCEPT !.image = dst[1], !.subs = {dst[2]}, !.type = "array"]
    IN /\ dst[1] = src[1] /\ dst # src
       /\ \/ clears = {} /\ Do([Used(t, {dst, src}) EXCEPT !.content = Copied(@, dst, src)],
                               Copied(promised, dst, src))
          \/ \E e \in clears : Do(Defer(s, [e EXCEPT !.view = View(e), !.discard = {}]),
                                  Copied(promised, dst, src))

\* copyBufferToImage
UploadImage ==
  \E dst \in Subresources, x \in Values :
    LET s == PrepareImage(SuspendRenderPass(ctx), dst[1], {dst[2]}, TRUE)
        cells == {c \in Cells : <<c[1], c[2]>> = dst}
    IN Do([Used(s, {dst}) EXCEPT !.content = Written(@, cells, x)], Written(promised, cells, x))

\* emitGraphicsBarrier and what else ends the render pass for a moment.
Suspend == ctx' = SuspendRenderPass(ctx) /\ UNCHANGED <<promised, calls>>

\* flushCommandList: other processes may use the shared images.
Flush ==
  LET t == PerformClears(SuspendRenderPass(ctx), Shared, FALSE)
      u == ToDefault(t, {i \in DOMAIN t.fb : t.fb[i].view.image \in Shared})
  IN Do([Used(u, {x \in Subresources : x[1] \in Shared}) EXCEPT !.dirty = TRUE], promised)

ContextNext == \/ BindRenderTargets \/ ClearRenderTarget \/ DiscardImageView \/ ClearImageView
        \/ Draw \/ Dispatch \/ CopyImage \/ UploadImage \/ Suspend \/ Flush

ContextSpec == ContextInit /\ [][ContextNext]_renderVars

-----------------------------------------------------------------------------
Layouts == {"default", "attachment", "depth", "read only"}

ContextTypeOK ==
  /\ ctx.pass \in {"none", "bound", "suspended"}
  /\ DOMAIN ctx.rt = DOMAIN ctx.fb /\ \A i \in DOMAIN ctx.rt : ctx.rt[i] \in Layouts
  /\ ctx.ops = <<>>
  /\ ctx.layout \in [Subresources -> Layouts]
  /\ {ctx.content, promised} \subseteq [Cells -> Values \cup {Undef}]

\* What the images hold once the clears that are deferred are executed.
Seen == Cleared(ctx.content, Deferred(ctx))

\* However clears are deferred, merged, folded into a render pass or copied, the images hold
\* what the calls of the context, in their order, would have written one by one. Clears that
\* are deferred do not overlap, and none is while a render pass is bound.
ContentsInOrder ==
  /\ ContextTypeOK
  /\ \A c \in Cells : promised[c] \in {Undef, Seen[c]}
  /\ \A j, k \in DOMAIN ctx.deferred : j # k => ~Overlap(ctx.deferred[j].view, ctx.deferred[k].view)
  /\ ctx.pass = "bound" => ctx.deferred = <<>>

\* Unless a clear went astray, every barrier, render pass and command finds the image in the
\* layout it takes it to be in, and m_rtLayouts has the layouts of all attachments.
LayoutsTracked ==
  ~ctx.stray =>
    /\ ctx.valid
    /\ \A i \in DOMAIN ctx.fb : \A x \in Subs(ctx.fb[i].view) : ctx.layout[x] = ctx.rt[i]
=============================================================================
