------------------------- MODULE MCTransientBuffers -------------------------
\* Small instances of TransientBuffers.
EXTENDS TransientBuffers
=============================================================================
