------------------------------ MODULE MCSpscRing ------------------------------
(* SpscRing on a two-slot ring whose counters wrap after six elements,   *)
(* with batches one longer than the ring.                                  *)
EXTENDS SpscRing
===============================================================================
