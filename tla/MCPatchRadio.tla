------------------------------ MODULE MCPatchRadio ------------------------------
(* Four sets: one active, one taken or published, one retired and one in   *)
(* the GUI thread's hands.                                                 *)
EXTENDS PatchRadio
=============================================================================
