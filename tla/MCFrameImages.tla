---------------------------- MODULE MCFrameImages ----------------------------
\* Small instances of FrameImages: two targets of one
\* sample, a multisampled one; two textures, drawn to the surface.
EXTENDS FrameImages

SmallWorlds == {Single, Multi, Textures}
Renaming == Permutations(Single)
=============================================================================
