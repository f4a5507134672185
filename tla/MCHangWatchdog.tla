----------------------------- MODULE MCHangWatchdog -----------------------------
(***************************************************************************)
(* One poll is the unit of time, and the budgets are in the code's order:  *)
(* the frames', which is also how long Windows waits, the teardown's, the  *)
(* start-up's, which is also the cap.  Two start-up frames; pauses nested  *)
(* once; a sleep that is told under every budget, and one that never is.   *)
(***************************************************************************)
EXTENDS HangWatchdog
=============================================================================
