------------------------- MODULE MCD3D8StateBlocks -------------------------
EXTENDS D3D8StateBlocks, TLC

Symmetric == Permutations(Blocks)
=============================================================================
