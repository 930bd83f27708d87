------------------------ MODULE MCGraphicsPipelines ------------------------
(* GraphicsPipelines for TLC: an instance that can be linked for each       *)
(* pipeline, and one that cannot.                                           *)
EXTENDS GraphicsPipelines

CONSTANTS g1, g2, s1, s2

MCLinkable == {<<g1, s1>>, <<g2, s1>>}
MCDrawn    == MCLinkable \cup {<<g1, s2>>}
=============================================================================
