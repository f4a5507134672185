------------------------------- MODULE MCSettings -------------------------------
(***************************************************************************)
(* Three configurations, so that a write out, one behind it and the file   *)
(* can all differ; changes enough to come back to the first; a second      *)
(* launch to read what the first left.                                     *)
(***************************************************************************)
EXTENDS Settings
=============================================================================
