---------------------------- MODULE D3D8Objects ----------------------------
(* What the components of the D3D8 front end share.                         *)

CONSTANTS
  IndexBuffers,
  Null            \* nothing is bound; as a vertex shader handle, FVF 0
=============================================================================
