------------------------------- MODULE MCAudioOut -------------------------------
(***************************************************************************)
(* Two devices, one of them mono, and a ring that holds two of the deepest *)
(* leads in stereo with the matcher's margin and one block to spare.       *)
(***************************************************************************)
EXTENDS AudioOut
=============================================================================
