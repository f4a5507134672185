----------------------------- MODULE MCTransmitter -----------------------------
(***************************************************************************)
(* One radio, one plugin, one browser.  Time counts in the smallest wait of *)
(* the code, a step of the TX thread; the order of the waits is the code's: *)
(* a step and the alive wait are shorter than a latch's minute, and a stall *)
(* may outlast any of them.                                                 *)
(***************************************************************************)
EXTENDS Transmitter
=============================================================================
