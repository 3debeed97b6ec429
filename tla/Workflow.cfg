SPECIFICATION Spec
CONSTANTS
  NSteps = 3
  HasJump = {0}
  AllowBlocked = {1}
  Transitions <- MCTransitions
  Answers <- MCAnswers
  Blank = "blank"
  Limit = 2
  NoRun = none
  MaxRuns = 2
  MaxRestarts = 2
  MaxTails = 2
INVARIANTS CopiesAgree NagsBounded
 
