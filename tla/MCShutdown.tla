------------------------------ MODULE MCShutdown ------------------------------
(* Shutdown with the turns as model values. *)
EXTENDS Shutdown

CONSTANTS t1, t2
=============================================================================
