--------------------------- MODULE MCPresentation ---------------------------
EXTENDS Presentation, TLC
=============================================================================
