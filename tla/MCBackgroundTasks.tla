-------------------------- MODULE MCBackgroundTasks --------------------------
(***************************************************************************)
(* Instance: one command, asked for in the background or taken over from  *)
(* the foreground, of one session; a second session whose turns drain the  *)
(* notifications as well.  Tasks meet only in the list and in the stop's   *)
(* snapshot, both of which keep them apart.                                *)
(***************************************************************************)
EXTENDS BackgroundTasks

CONSTANTS t1, s1, s2

MCOwner == [t \in Tasks |-> s1]
=============================================================================
