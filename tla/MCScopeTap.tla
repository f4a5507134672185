------------------------------ MODULE MCScopeTap ------------------------------
(* A four-sample tap, pushes of up to five samples, two laps and more.     *)
EXTENDS ScopeTap
===============================================================================
