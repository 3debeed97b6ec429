--------------------------- MODULE MCSpawnAnnounce ---------------------------
(***************************************************************************)
(* SpawnAnnounce with two children, the second of which may be a child of  *)
(* the first.                                                              *)
(***************************************************************************)
EXTENDS SpawnAnnounce

\* Two turns of the parent, one of the first child, none of the second.
MCTurns == [s \in Children \cup {Root} |-> IF s = Root THEN 2 ELSE IF s = 1 THEN 1 ELSE 0]
=============================================================================
