--------------------------- MODULE MCSessionStore ---------------------------
(* The instance of SessionStore that TLC checks.                           *)
EXTENDS SessionStore
=============================================================================
