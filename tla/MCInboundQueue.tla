---------------------------- MODULE MCInboundQueue ----------------------------
(* Small instances of InboundQueue for TLC.                                *)
EXTENDS InboundQueue, TLC

CONSTANTS m1, m2, m3

\* Messages are interchangeable unless one of them is retired.
Symmetry == Permutations(Messages)
=============================================================================
