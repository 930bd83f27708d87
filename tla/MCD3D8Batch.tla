---------------------------- MODULE MCD3D8Batch ----------------------------
EXTENDS D3D8Batch, TLC

Symmetry == Permutations(States) \cup Permutations(Streams)
=============================================================================
