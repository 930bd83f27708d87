--------------------------- MODULE MCDeviceFence ---------------------------
(* DeviceFence for TLC: events and bounds come from the .cfg files.         *)
EXTENDS DeviceFence

=============================================================================
