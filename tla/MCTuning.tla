-------------------------------- MODULE MCTuning --------------------------------
(***************************************************************************)
(* One stop in the range and two ticked rows, or none; times the shortest  *)
(* in which a hold and a resume wait last several frames, a frame may      *)
(* overrun any of them, the listen budget can run out in a hold, and the   *)
(* pacing interval is longer than a dwell and long enough to choose a      *)
(* source and to tune again while a tune is held.                          *)
(***************************************************************************)
EXTENDS Tuning

MCRange == <<1>>
MCRowLists == {<<>>, <<1, 2>>}
=============================================================================
