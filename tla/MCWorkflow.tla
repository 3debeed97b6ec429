----------------------------- MODULE MCWorkflow -----------------------------
(***************************************************************************)
(* Instances of Workflow for TLC: a step with jump questions, whose        *)
(* answers go on, repeat it, or complete the run, and two steps without,   *)
(* of which the last goes back and the other completes the run.            *)
(***************************************************************************)
EXTENDS Workflow

When(sheets, action, target) ==
  [default |-> FALSE, when |-> sheets, action |-> action, target |-> target]
Otherwise(action, target) ==
  [default |-> TRUE, when |-> {}, action |-> action, target |-> target]

MCAnswers == {"blank", "yes", "again"}

MCTransitions ==
  [s \in 0 .. 2 |->
     CASE s = 0 -> << When({"yes"}, "goto", 2), When({"again", "yes"}, "reexecute", 0),
                      Otherwise("complete", 0) >>
       [] s = 1 -> << Otherwise("complete", 0) >>
       [] s = 2 -> << Otherwise("goto", 1) >>]
=============================================================================
