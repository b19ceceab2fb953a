------------------------ MODULE MCTexturePipeline ------------------------
\* Instances of TexturePipeline for TLC; the .cfg files choose the calls.
EXTENDS TexturePipeline

Everything == {"load", "init", "draw", "frameSubmit", "setResidency", "residency",
               "region", "cancel", "unload", "waitIdle"}
Polite == {"load", "init", "draw", "frameSubmit", "waitIdle"}
=============================================================================
