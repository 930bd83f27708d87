------------------------- MODULE MCSubmissionQueue -------------------------
(* SubmissionQueue for TLC: callers and bounds come from the .cfg files.    *)
EXTENDS SubmissionQueue

=============================================================================
