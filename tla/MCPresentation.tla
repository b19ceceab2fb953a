---------------------------- MODULE MCPresentation ----------------------------
EXTENDS Presentation, TLC

\* Surfaces are interchangeable.
MCSurfaces == Permutations(Surfaces)
=============================================================================
