-------------------------------- MODULE MCTakes --------------------------------
(* Takes with two rates, two files and a take that is full at two frames.  *)
EXTENDS Takes
===============================================================================
