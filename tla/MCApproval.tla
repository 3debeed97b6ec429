----------------------------- MODULE MCApproval -----------------------------
(* A session of an agent and a sub-agent session of the same agent, both bound *)
(* to one sender, with two ordinary operations and an untrusted command.        *)
EXTENDS Approval

CONSTANTS s1, s2, a1, u1

MCAgentOf == [s \in Sessions |-> a1]
MCSenderOf == [s \in Sessions |-> u1]
=============================================================================
