-------------------------- MODULE MCBufferMapping --------------------------
(* BufferMapping for TLC.  There is a slice for each call and one for the   *)
(* start: allocating new memory never fails.                                *)
EXTENDS BufferMapping

ASSUME EnoughSlices == Cardinality(Slices) > MaxCalls

=============================================================================
