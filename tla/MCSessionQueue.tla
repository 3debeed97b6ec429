--------------------------- MODULE MCSessionQueue ---------------------------
(***************************************************************************)
(* SessionQueue for TLC: announces at Next, tasks at Later, and the        *)
(* notification of a yield's timeout at Next.                              *)
(***************************************************************************)
EXTENDS SessionQueue

MCPriority == [e \in Entries |-> IF e \in Jobs THEN 0 ELSE 1]
=============================================================================
