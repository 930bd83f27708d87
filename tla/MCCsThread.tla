---------------------------- MODULE MCCsThread ----------------------------
(* CsThread for TLC: callers and bounds come from the .cfg files.              *)
EXTENDS CsThread


=============================================================================
