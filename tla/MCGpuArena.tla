----------------------------- MODULE MCGpuArena -----------------------------
(***************************************************************************)
(* Two elements beside the sentinel, which fill buffers of one and of two  *)
(* elements (a third one asks for a buffer past the limit), two values of  *)
(* an element, and a slot that is removed and reserved again once before   *)
(* its generation is exhausted; frames of every backend.                   *)
(***************************************************************************)
EXTENDS GpuArena
=============================================================================
