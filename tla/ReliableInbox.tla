---------------------------- MODULE ReliableInbox ----------------------------
(***************************************************************************)
(* What the inbound queue promises: a message it has taken is pending      *)
(* until the processing chain has run to its end for it, and then done,    *)
(* for good.  Crashes, restarts, rewrites of the file and deliveries of a  *)
(* message that is done already are invisible here.                        *)
(***************************************************************************)
CONSTANT Messages

VARIABLES
  pending,  \* taken, and to be processed in this process life or a later one
  done      \* processed to the end at least once

Init == pending = {} /\ done = {}

Take(m) ==
  /\ m \notin pending \cup done
  /\ pending' = pending \cup {m}
  /\ UNCHANGED done

Finish(m) ==
  /\ m \in pending
  /\ pending' = pending \ {m}
  /\ done' = done \cup {m}

Next == \E m \in Messages : Take(m) \/ Finish(m)

Spec == Init /\ [][Next]_<<pending, done>>
=============================================================================
