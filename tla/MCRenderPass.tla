---------------------------- MODULE MCRenderPass ----------------------------
EXTENDS RenderPass, TLC

Color(subs, type, format) ==
  [image |-> "color", subs |-> subs, aspects |-> {"color"}, type |-> type, format |-> format]

Both  == Color({0, 1}, "array", "unorm")
First == Color({0}, "2d", "unorm")
Srgb  == Color({0}, "2d", "srgb")
Depth == [image |-> "depth", subs |-> {0}, aspects |-> {"depth", "stencil"}, type |-> "2d",
          format |-> "d24s8"]

MCViews == {Both, First, Srgb, Depth}

At(v) == [view |-> v, layout |-> "attachment"]
DepthIn(l) == [view |-> Depth, layout |-> l]

MCTargets ==
  {<<>>, 0 :> At(First) @@ 2 :> DepthIn("attachment"), 0 :> At(Srgb) @@ 2 :> DepthIn("depth"),
   0 :> At(Both) @@ 2 :> DepthIn("read only"), 1 :> At(Both)}

Symmetric == Permutations(Values)
=============================================================================
