-------------------------- MODULE MCFrameCompletion --------------------------
\* Two slots that wrap around twice, two native objects, all three backends.
EXTENDS FrameCompletion, TLC

ItemSymmetry == Permutations(Items)
=============================================================================
