---------------------------- MODULE WorkflowProofs ----------------------------
(***************************************************************************)
(* Proofs about Workflow, for every definition, every limit and every      *)
(* bound.  The engine's operations are dealt with one by one in the first  *)
(* lemmas; the rest is about the copies of the run.                        *)
(***************************************************************************)
EXTENDS Workflow, TLAPS

\* What is true of a single copy of a run, whoever holds it.
Sound(r) ==
  r # NoRun =>
    /\ r.reason # "none" <=> r.phase = "Blocked"
    /\ r.count <= MostNags
    /\ r.phase \in {"Executing", "Verifying"} => r.count < MostNags
    /\ r.phase = "Jumping" => r.count = 0

\* The two copies of one run, when nothing the handler did is still unstored.
Agree(h, s) ==
  /\ h.step = s.step /\ h.done = s.done
  /\ (h.phase = "Jumping") = (s.phase = "Jumping")
  /\ (h.phase = "Complete") = (s.phase = "Complete")

\* h is a blocked copy of the run s.
BlockedCopy(h, s) ==
  /\ h.phase = "Blocked" /\ h.id = s.id
  /\ h.step = s.step /\ h.done = s.done

\* A single checklist blocks a run when the limit is 0 or 1.
LEMMA MostNagsType == MostNags \in Nat /\ MostNags >= 1
BY ConstantsAssumption DEF MostNags

\* WorkflowEngine::start begins a sound run.
LEMMA NewRunSound ==
  ASSUME NEW i \in 1 .. MaxRuns
  PROVE  /\ NewRun(i) \in Run /\ Sound(NewRun(i))
         /\ NewRun(i).id = i /\ NewRun(i).phase = "Executing" /\ NewRun(i) # NoRun
<1>1. 0 \in Steps
  BY ConstantsAssumption DEF Steps
<1>2. NewRun(i) \in Run
  BY <1>1, Zenon DEF NewRun, Run, Phases, Reasons
<1>3. /\ NewRun(i).id = i /\ NewRun(i).phase = "Executing"
      /\ NewRun(i).count = 0 /\ NewRun(i).reason = "none"
  BY Zenon DEF NewRun
<1> QED BY <1>2, <1>3, MostNagsType, NoRunAssumption DEF Sound

\* on_verify_injected counts the checklist and ends in Verifying or Blocked.
LEMMA OnVerifyInjectedSound ==
  ASSUME NEW r \in Run, Sound(r), r.phase \in {"Executing", "Verifying"}
  PROVE  LET q == OnVerifyInjected(r)
         IN /\ q \in Run /\ Sound(q) /\ q.id = r.id /\ q.step = r.step /\ q.done = r.done
            /\ q.count = r.count + 1 /\ q.phase \in {"Verifying", "Blocked"}
<1> DEFINE q == OnVerifyInjected(r)
<1>1. r.count \in Nat /\ r.count < MostNags /\ r.reason = "none"
  BY NoRunAssumption, Zenon DEF Sound, Run
<1>2. q \in Run
  <2>1. \A n \in Nat :
          /\ [r EXCEPT !.count = n, !.phase = "Blocked", !.reason = "limit"] \in Run
          /\ [r EXCEPT !.count = n, !.phase = "Verifying"] \in Run
    BY Zenon DEF Run, Phases, Reasons
  <2>2. r.count + 1 \in Nat
    BY <1>1
  <2> QED BY <2>1, <2>2, Zenon DEF OnVerifyInjected
<1>3. /\ q.id = r.id /\ q.step = r.step /\ q.done = r.done
      /\ q.count = r.count + 1 /\ q.phase \in {"Verifying", "Blocked"}
      /\ q.reason = (IF q.phase = "Blocked" THEN "limit" ELSE "none")
      /\ q.phase = "Verifying" => q.count < Limit
  BY <1>1, ConstantsAssumption DEF OnVerifyInjected, Run
<1>4. MostNags >= Limit
  BY ConstantsAssumption DEF MostNags
<1> HIDE DEF q
<1>5. Sound(q)
  BY <1>1, <1>3, <1>4, MostNagsType, ConstantsAssumption DEF Sound
<1> QED BY <1>2, <1>3, <1>5, Zenon DEF q

\* A transition of a run that has passed its checklist, whatever the action.
LEMMA ExecuteSound ==
  ASSUME NEW r \in Run, NEW t, NEW q \in Execute(r, t), r.count = 0, r.reason = "none"
  PROVE  /\ q \in Run /\ Sound(q) /\ q.id = r.id /\ q.count = 0
         /\ q.phase \in {"Executing", "Complete"}
<1>1. \A x \in Steps : /\ ExecuteGoto(r, x) \in Run
                       /\ ExecuteGoto(r, x).id = r.id /\ ExecuteGoto(r, x).count = 0
                       /\ ExecuteGoto(r, x).phase = "Executing"
                       /\ ExecuteGoto(r, x).reason = "none"
  BY ConstantsAssumption, Zenon DEF ExecuteGoto, Run, Phases, Reasons
<1>2. \A x \in Steps : /\ ExecuteReexecute(r, x) \in Run
                       /\ ExecuteReexecute(r, x).id = r.id /\ ExecuteReexecute(r, x).count = 0
                       /\ ExecuteReexecute(r, x).phase = "Executing"
                       /\ ExecuteReexecute(r, x).reason = "none"
  BY ConstantsAssumption, Zenon DEF ExecuteReexecute, Run, Phases, Reasons
<1>3. LET c == [r EXCEPT !.phase = "Complete"]
      IN c \in Run /\ c.id = r.id /\ c.count = 0 /\ c.phase = "Complete" /\ c.reason = "none"
  BY Zenon DEF Run, Phases, Reasons
<1>4. \/ \E x \in Steps : q = ExecuteGoto(r, x)
      \/ \E x \in Steps : q = ExecuteReexecute(r, x)
      \/ q = [r EXCEPT !.phase = "Complete"]
  BY Zenon DEF Execute
<1>5. /\ q \in Run /\ q.id = r.id /\ q.count = 0 /\ q.reason = "none"
      /\ q.phase \in {"Executing", "Complete"}
  BY <1>1, <1>2, <1>3, <1>4, Zenon
<1> QED BY <1>5, MostNagsType DEF Sound

\* workflow_verify is taken in Verifying only, and leaves no count behind.
LEMMA HandleVerifySound ==
  ASSUME NEW r \in Run, Sound(r), NEW q \in HandleVerify(r)
  PROVE  /\ q \in Run /\ Sound(q) /\ q.id = r.id /\ q.count = 0
         /\ r.phase = "Verifying"
<1> DEFINE passed == [r EXCEPT !.count = 0]
<1>1. r.phase = "Verifying" /\ r.reason = "none"
  BY NoRunAssumption, Zenon DEF HandleVerify, Sound
<1>2. /\ passed \in Run /\ passed.count = 0 /\ passed.reason = "none" /\ passed.id = r.id
  BY <1>1, Zenon DEF Run
<1>3. CASE r.step \in HasJump
  <2>1. q = [passed EXCEPT !.phase = "Jumping"]
    BY <1>1, <1>3, Zenon DEF HandleVerify
  <2>2. /\ q \in Run /\ q.count = 0 /\ q.reason = "none" /\ q.id = r.id /\ q.phase = "Jumping"
    BY <1>2, <2>1, Zenon DEF Run, Phases
  <2> QED BY <1>1, <2>2, MostNagsType DEF Sound
<1>4. CASE r.step \notin HasJump
  <2>1. \E t \in EvaluateTransitions(r.step, Blank) : q \in Execute(passed, t)
    BY <1>1, <1>4, Zenon DEF HandleVerify
  <2> HIDE DEF passed
  <2> QED BY <1>1, <1>2, <2>1, ExecuteSound, Zenon
<1> QED BY <1>3, <1>4, Zenon

\* workflow_jump is taken in Jumping only.
LEMMA HandleJumpSound ==
  ASSUME NEW r \in Run, Sound(r), NEW a, NEW q \in HandleJump(r, a)
  PROVE  /\ q \in Run /\ Sound(q) /\ q.id = r.id /\ q.count = 0
         /\ r.phase = "Jumping"
<1>1. r.phase = "Jumping" /\ r.reason = "none" /\ r.count = 0
  BY NoRunAssumption, Zenon DEF HandleJump, Sound
<1>2. \E t \in EvaluateTransitions(r.step, a) : q \in Execute(r, t)
  BY <1>1, Zenon DEF HandleJump
<1> QED BY <1>1, <1>2, ExecuteSound, Zenon

\* workflow_blocked is taken in every phase and keeps the step.
LEMMA HandleBlockedSound ==
  ASSUME NEW r \in Run, Sound(r), NEW q \in HandleBlocked(r)
  PROVE  /\ q \in Run /\ Sound(q) /\ q.count = r.count
         /\ q.phase = "Blocked" /\ q.id = r.id /\ q.step = r.step /\ q.done = r.done
<1>1. q = [r EXCEPT !.phase = "Blocked", !.reason = "agent"]
  BY Zenon DEF HandleBlocked
<1>2. /\ q \in Run /\ q.count = r.count /\ q.reason = "agent"
      /\ q.phase = "Blocked" /\ q.id = r.id /\ q.step = r.step /\ q.done = r.done
  BY <1>1, Zenon DEF Run, Phases, Reasons
<1>3. r.count <= MostNags
  BY NoRunAssumption, Zenon DEF Sound
<1> QED BY <1>2, <1>3, Zenon DEF Sound

\* on_owner_resolve keeps the step.
LEMMA OnOwnerResolveSound ==
  ASSUME NEW r \in Run
  PROVE  LET q == OnOwnerResolve(r)
         IN /\ q \in Run /\ Sound(q) /\ q.phase = "Verifying"
            /\ q.id = r.id /\ q.step = r.step /\ q.done = r.done
<1> DEFINE q == OnOwnerResolve(r)
<1>1. q \in Run
  BY Zenon DEF OnOwnerResolve, Run, Phases, Reasons
<1>2. /\ q.phase = "Verifying" /\ q.reason = "none" /\ q.count = 0
      /\ q.id = r.id /\ q.step = r.step /\ q.done = r.done
  BY Zenon DEF OnOwnerResolve, Run
<1> HIDE DEF q
<1>3. Sound(q)
  BY <1>2, MostNagsType DEF Sound
<1> QED BY <1>1, <1>2, <1>3, Zenon DEF q

\* mark_blocked keeps the step.
LEMMA MarkBlockedSound ==
  ASSUME NEW r \in Run, Sound(r)
  PROVE  /\ MarkBlocked(r) \in Run /\ Sound(MarkBlocked(r)) /\ MarkBlocked(r).id = r.id
BY NoRunAssumption, Zenon DEF MarkBlocked, Run, Sound, Phases, Reasons

-----------------------------------------------------------------------------
Sounds == Sound(handler) /\ Sound(stored) /\ Sound(saved) /\ Sound(read)

\* Runs are numbered in the order they are started.
Numbered == \A r \in {handler, stored, saved, read} \ {NoRun} : r.id <= runs

\* nags is the handler's count, and what earlier lives of the daemon left.
Counted ==
  nags <= MostNags * restarts + (IF handler = NoRun THEN 0 ELSE handler.count)

\* The copies agree unless the handler has done something the turn's end has
\* still to store.
Stored ==
  (/\ handler # NoRun /\ stored # NoRun /\ handler.id = stored.id
   /\ turn # "results" \/ ~results.processed) => Agree(handler, stored)

\* A stored run that is not the handler's has just been started, and a stored
\* run that is blocked is blocked in the handler too.
Fresh ==
  (handler # NoRun /\ stored # NoRun) =>
    /\ handler.id # stored.id => stored.phase = "Executing"
    /\ stored.phase = "Blocked" => BlockedCopy(handler, stored)

\* Between owner_pause_kind and the last write of on_owner_message the run
\* stays blocked where it is.
Resolving ==
  /\ owner = "read" => (stored # NoRun /\ stored.phase = "Blocked")
  /\ read # NoRun =>
       /\ read.phase = "Blocked"
       /\ IF handler = NoRun THEN stored = read ELSE BlockedCopy(handler, read)

Locked == turn = "results" => handler # NoRun

Inv == /\ TypeOK /\ Sounds /\ Numbered /\ Counted /\ Stored /\ Fresh
       /\ Resolving /\ Locked

\* The initial state satisfies the inductive invariant.
LEMMA InitInv == Init => Inv
<1> SUFFICES ASSUME Init PROVE Inv
  OBVIOUS
<1>1. TypeOK
  <2>1. results \in [processed : BOOLEAN, jumped : BOOLEAN, wasJumping : BOOLEAN]
    BY Zenon DEF Init, NoResults
  <2>2. /\ tails \in 0 .. MaxTails /\ runs \in 0 .. MaxRuns
        /\ restarts \in 0 .. MaxRestarts /\ nags \in Nat
    BY ConstantsAssumption DEF Init
  <2>3. /\ turn = "none" /\ owner = "none" /\ read = NoRun /\ cleanup = FALSE
        /\ stopped = {} /\ handler = NoRun /\ stored = NoRun /\ saved = NoRun
    BY Zenon DEF Init
  <2> QED BY <2>1, <2>2, <2>3, Zenon DEF TypeOK, RunOrNone
<1>2. Counted
  BY MostNagsType DEF Init, Counted
<1> QED BY <1>1, <1>2, Zenon DEF Init, Inv, Sounds, Sound, Numbered, Stored, Fresh, Resolving, Locked

\* Steps that leave the copies, and what the owner's call holds, alone.
LEMMA CopiesUntouched ==
  ASSUME Inv, UNCHANGED <<handler, stored, owner, read, runs, restarts, nags>>,
         TypeOK', Sound(saved'), saved' # NoRun => saved'.id <= runs,
         turn' = "results" => turn = "results",
         (turn' # "results" \/ ~results'.processed) => (turn # "results" \/ ~results.processed)
  PROVE  Inv'
<1>1. Sounds' /\ Numbered' /\ Counted'
  BY Zenon DEF Inv, Sounds, Sound, Numbered, Counted
<1>2. Stored' /\ Fresh' /\ Resolving' /\ Locked'
  BY Zenon DEF Inv, Stored, Fresh, Resolving, Locked
<1> QED BY <1>1, <1>2, Zenon DEF Inv

\* What ensure_workflow_handler makes of the copies.
LEMMA EnsureHandlerSound ==
  ASSUME Inv
  PROVE  LET h == EnsureHandler
         IN /\ h \in RunOrNone /\ Sound(h)
            /\ h # NoRun => h.id <= runs
            /\ nags <= MostNags * restarts + (IF h = NoRun THEN 0 ELSE h.count)
            /\ (h # NoRun /\ turn # "results" /\ stored # NoRun) =>
                 /\ h.id = stored.id => Agree(h, stored)
                 /\ h.id # stored.id => stored.phase = "Executing"
                 /\ stored.phase = "Blocked" => BlockedCopy(h, stored)
            /\ read # NoRun => h # NoRun /\ BlockedCopy(h, read)
<1>1. CASE handler # NoRun
  BY <1>1, Zenon DEF EnsureHandler, Inv, TypeOK, Sounds, Numbered, Counted, Stored, Fresh, Resolving
<1>2. CASE handler = NoRun
  <2>1. /\ EnsureHandler \in RunOrNone /\ Sound(EnsureHandler)
        /\ EnsureHandler # NoRun => EnsureHandler.id <= runs
    BY <1>2, Zenon DEF EnsureHandler, Inv, TypeOK, Sounds, Numbered
  <2>2. EnsureHandler # NoRun => EnsureHandler.count \in Nat
    BY <2>1, Zenon DEF RunOrNone, Run
  <2>3. nags <= MostNags * restarts + (IF EnsureHandler = NoRun THEN 0 ELSE EnsureHandler.count)
    <3>1. nags \in Nat /\ restarts \in Nat /\ nags <= MostNags * restarts + 0
      BY <1>2, ConstantsAssumption DEF Inv, TypeOK, Counted
    <3>2. MostNags * restarts \in Nat
      BY <3>1, MostNagsType
    <3> QED BY <2>2, <3>1, <3>2
  <2>4. read # NoRun => EnsureHandler # NoRun /\ BlockedCopy(EnsureHandler, read)
    BY <1>2, Zenon DEF EnsureHandler, Inv, Resolving, BlockedCopy
  <2>5. EnsureHandler = stored
    BY <1>2, Zenon DEF EnsureHandler
  <2> QED BY <2>1, <2>3, <2>4, <2>5, Zenon DEF Agree, BlockedCopy
<1> QED BY <1>1, <1>2, Zenon
\* The agent's turn and what it does to the handler's copy.
LEMMA TurnInv ==
  ASSUME Inv, BeginTurn \/ Turn
  PROVE  Inv'
<1> USE ConstantsAssumption, NoRunAssumption
<1>0. /\ handler \in RunOrNone /\ stored \in RunOrNone /\ saved \in RunOrNone
      /\ Sound(handler) /\ Sound(stored) /\ Sound(saved)
      /\ saved # NoRun => saved.id <= runs
      /\ turn # "none" => tails + 1 \in 0 .. MaxTails
      /\ tails \in 0 .. MaxTails
  BY DEF Inv, TypeOK, Sounds, Numbered
<1>1. CASE BeginTurn \/ TurnFails \/ StartResult
  <2>1. TypeOK'
    <3>1. results' \in [processed : BOOLEAN, jumped : BOOLEAN, wasJumping : BOOLEAN]
      BY <1>1, Zenon DEF Inv, TypeOK, BeginTurn, TurnFails, StartResult
    <3>2. tails' \in 0 .. MaxTails /\ (turn' # "none" => tails' < MaxTails)
      BY <1>0, <1>1, Zenon DEF Inv, TypeOK, BeginTurn, TurnFails, StartResult
    <3> QED BY <1>1, <3>1, <3>2, Zenon DEF Inv, TypeOK, BeginTurn, TurnFails, StartResult, ownerVars
  <2>2. (turn' # "results" \/ ~results'.processed) => (turn # "results" \/ ~results.processed)
    BY <1>1, Zenon DEF Inv, TypeOK, BeginTurn, TurnFails, StartResult
  <2> QED BY <1>0, <1>1, <2>1, <2>2, CopiesUntouched, Zenon
          DEF BeginTurn, TurnFails, StartResult, ownerVars
<1>2. CASE RejectStart \/ BeginResults
  <2> USE EnsureHandlerSound
  <2>1. /\ handler' = EnsureHandler /\ turn = "llm"
        /\ UNCHANGED <<stored, saved, owner, read, runs, restarts, nags, cleanup, stopped>>
    BY <1>2, Zenon DEF RejectStart, BeginResults, ownerVars
  <2>2. TypeOK'
    <3>1. results' \in [processed : BOOLEAN, jumped : BOOLEAN, wasJumping : BOOLEAN]
      BY <1>2, Zenon DEF Inv, TypeOK, RejectStart, BeginResults, NoResults
    <3>2. turn' \in {"none", "results"} /\ tails' \in 0 .. MaxTails
          /\ (turn' # "none" => tails' < MaxTails)
      BY <1>0, <1>2, Zenon DEF Inv, TypeOK, RejectStart, BeginResults
    <3> QED BY <2>1, <3>1, <3>2, Zenon DEF Inv, TypeOK
  <2>3. Sounds' /\ Numbered' /\ Counted'
    <3>1. Sounds'
      BY <2>1, Zenon DEF Inv, Sounds, Sound
    <3>2. Numbered'
      BY <2>1, Zenon DEF Inv, Numbered
    <3>3. Counted'
      BY <2>1, Zenon DEF Inv, Counted
    <3> QED BY <3>1, <3>2, <3>3, Zenon
  <2>4. Stored' /\ Fresh' /\ Resolving'
    BY <2>1, Zenon DEF Inv, Stored, Fresh, Resolving
  <2>5. Locked'
    BY <1>2, Zenon DEF RejectStart, BeginResults, Locked
  <2> QED BY <2>2, <2>3, <2>4, <2>5, Zenon DEF Inv
<1>3. CASE VerifyResult \/ JumpResult \/ BlockedResult
  <2>1. /\ turn = "results" /\ turn' = turn /\ handler # NoRun /\ handler \in Run
        /\ UNCHANGED <<stored, saved, tails, owner, read, runs, restarts, cleanup, stopped>>
    BY <1>0, <1>3, Zenon DEF Inv, Locked, RunOrNone, VerifyResult, JumpResult, BlockedResult, ownerVars
  <2>2. /\ handler' \in Run /\ Sound(handler') /\ handler'.id = handler.id
        /\ handler.phase = "Blocked" => BlockedCopy(handler', handler)
        /\ nags' \in Nat /\ nags' <= MostNags * restarts + handler'.count
    <3>0. /\ nags \in Nat /\ nags <= MostNags * restarts + handler.count
          /\ restarts \in Nat /\ MostNags * restarts \in Nat
      <4>1. /\ nags \in Nat /\ nags <= MostNags * restarts + handler.count /\ restarts \in Nat
        BY <2>1 DEF Inv, TypeOK, Counted
      <4> QED BY <4>1, MostNagsType
    <3>1. CASE VerifyResult
      <4>1. handler' \in HandleVerify(handler) /\ nags' = 0
        BY <3>1, Zenon DEF VerifyResult
      <4>2. /\ handler' \in Run /\ Sound(handler') /\ handler'.id = handler.id
            /\ handler'.count = 0 /\ handler.phase = "Verifying"
        BY <1>0, <2>1, <4>1, HandleVerifySound, Zenon
      <4> QED BY <3>0, <4>1, <4>2
    <3>2. CASE JumpResult
      <4>1. PICK a \in Answers : handler' \in HandleJump(handler, a)
        BY <3>2, Zenon DEF JumpResult
      <4>2. /\ handler' \in Run /\ Sound(handler') /\ handler'.id = handler.id
            /\ handler'.count = 0 /\ handler.phase = "Jumping"
        BY <1>0, <2>1, <4>1, HandleJumpSound, Zenon
      <4>3. handler.count = 0 /\ nags' = nags
        BY <1>0, <2>1, <3>2, <4>2, Zenon DEF Sound, JumpResult
      <4> QED BY <3>0, <4>2, <4>3, Zenon
    <3>3. CASE BlockedResult
      <4>1. handler' \in HandleBlocked(handler) /\ nags' = nags
        BY <3>3, Zenon DEF BlockedResult
      <4> QED BY <1>0, <2>1, <3>0, <4>1, HandleBlockedSound, Zenon DEF BlockedCopy
    <3> QED BY <1>3, <3>1, <3>2, <3>3, Zenon
  <2>3. /\ results' \in [processed : BOOLEAN, jumped : BOOLEAN, wasJumping : BOOLEAN]
        /\ results'.processed = TRUE
    BY <1>3, Zenon DEF Inv, TypeOK, VerifyResult, JumpResult, BlockedResult
  <2>4. TypeOK'
    BY <2>1, <2>2, <2>3, Zenon DEF Inv, TypeOK, RunOrNone
  <2>5. Sounds' /\ Numbered'
    BY <2>1, <2>2, Zenon DEF Inv, Sounds, Sound, Numbered
  <2>6. Counted' /\ Locked'
    BY <2>1, <2>2, Zenon DEF Counted, Locked
  <2>7. Stored' /\ Fresh' /\ Resolving'
    BY <2>1, <2>2, <2>3, Zenon DEF Inv, Stored, Fresh, Resolving, BlockedCopy
  <2> QED BY <2>4, <2>5, <2>6, <2>7, Zenon DEF Inv
<1>4. CASE EndResults
  <2>1. /\ turn = "results" /\ turn' = "none" /\ handler # NoRun /\ handler \in Run
        /\ stored' \in {stored, handler} /\ (results.processed => stored' = handler)
        /\ tails' = tails + 1 /\ results' = NoResults /\ cleanup' \in BOOLEAN
        /\ UNCHANGED <<handler, saved, owner, read, runs, restarts, nags, stopped>>
    BY <1>0, <1>4, Zenon DEF Inv, TypeOK, Locked, RunOrNone, EndResults, ownerVars
  <2>2. TypeOK'
    <3>1. results' \in [processed : BOOLEAN, jumped : BOOLEAN, wasJumping : BOOLEAN]
      BY <2>1, Zenon DEF NoResults
    <3> QED BY <1>0, <2>1, <3>1, Zenon DEF Inv, TypeOK
  <2>3. Sounds' /\ Numbered' /\ Counted' /\ Locked'
    BY <2>1 DEF Inv, Sounds, Sound, Numbered, Counted, Locked
  <2>4. Stored'
    BY <2>1, Zenon DEF Inv, Stored, Agree
  <2>5. Fresh' /\ Resolving'
    BY <2>1, Zenon DEF Inv, Fresh, Resolving, BlockedCopy
  <2> QED BY <2>2, <2>3, <2>4, <2>5, Zenon DEF Inv
<1> QED BY <1>1, <1>2, <1>3, <1>4, Zenon DEF Turn

\* The idle hook, which counts a checklist in the handler's copy only.
LEMMA HookInv ==
  ASSUME Inv, Hook
  PROVE  Inv'
<1> USE ConstantsAssumption, NoRunAssumption, EnsureHandlerSound
<1>0. /\ tails \in 1 .. MaxTails /\ tails' = tails - 1 /\ turn # "results" /\ turn' = turn
      /\ UNCHANGED <<stored, saved, results, cleanup, owner, read, runs, restarts, stopped>>
  BY DEF Inv, TypeOK, Hook, IdleHook, IdleHookVerify, ownerVars
<1>1. CASE IdleHook
  <2>1. handler' = EnsureHandler /\ nags' = nags
    BY <1>1, Zenon DEF IdleHook
  <2>2. TypeOK' /\ Locked'
    BY <1>0, <2>1 DEF Inv, TypeOK, Locked
  <2>3. Sounds' /\ Numbered' /\ Counted'
    <3>1. Sounds'
      BY <1>0, <2>1 DEF Inv, Sounds, Sound
    <3>2. Numbered'
      BY <1>0, <2>1, Zenon DEF Inv, Numbered
    <3>3. Counted'
      BY <1>0, <2>1, Zenon DEF Inv, Counted
    <3> QED BY <3>1, <3>2, <3>3, Zenon
  <2>4. Stored' /\ Fresh' /\ Resolving'
    BY <1>0, <2>1, Zenon DEF Inv, Stored, Fresh, Resolving
  <2> QED BY <2>2, <2>3, <2>4, Zenon DEF Inv
<1>2. CASE IdleHookVerify
  <2> DEFINE h == EnsureHandler
  <2>1. /\ h \in Run /\ h # NoRun /\ Sound(h) /\ h.phase \in {"Executing", "Verifying"}
        /\ handler' = OnVerifyInjected(h) /\ nags' = nags + 1
        /\ h.id <= runs /\ h.count \in Nat
    BY <1>2, Zenon DEF IdleHookVerify, OnSessionIdle, RunOrNone, Run
  <2>2. /\ handler' \in Run /\ handler' # NoRun /\ Sound(handler')
        /\ handler'.id = h.id /\ handler'.step = h.step
        /\ handler'.done = h.done /\ handler'.count = h.count + 1
        /\ handler'.phase \in {"Verifying", "Blocked"}
    BY <2>1, OnVerifyInjectedSound, Zenon
  <2>3. nags' \in Nat /\ nags' <= MostNags * restarts + handler'.count
    <3>1. nags \in Nat /\ restarts \in Nat /\ nags <= MostNags * restarts + h.count
      BY <2>1 DEF Inv, TypeOK
    <3>2. MostNags * restarts \in Nat
      BY <3>1, MostNagsType
    <3> QED BY <2>1, <2>2, <3>1, <3>2
  <2>4. read = NoRun
    BY <2>1, Zenon DEF BlockedCopy
  <2>5. stored # NoRun => /\ h.id = stored.id => Agree(h, stored)
                          /\ h.id # stored.id => stored.phase = "Executing"
                          /\ stored.phase # "Blocked"
    BY <1>0, <2>1, Zenon DEF BlockedCopy
  <2> HIDE DEF h
  <2>6. TypeOK' /\ Locked'
    BY <1>0, <2>2, <2>3 DEF Inv, TypeOK, Locked, RunOrNone
  <2>7. Sounds' /\ Numbered'
    BY <1>0, <2>1, <2>2 DEF Inv, Sounds, Sound, Numbered
  <2>8. Counted'
    BY <1>0, <2>2, <2>3, Zenon DEF Counted
  <2>9. Stored' /\ Fresh' /\ Resolving'
    BY <1>0, <2>1, <2>2, <2>4, <2>5, Zenon DEF Inv, Stored, Fresh, Resolving, Agree
  <2> QED BY <2>6, <2>7, <2>8, <2>9, Zenon DEF Inv
<1> QED BY <1>1, <1>2, Zenon DEF Hook

\* The owner's calls, which see and write the stored copy only.
LEMMA ControlInv ==
  ASSUME Inv, Control
  PROVE  Inv'
<1> USE ConstantsAssumption, NoRunAssumption
<1>0. /\ turn # "results"
      /\ UNCHANGED <<handler, cleanup, restarts, nags, turn, tails, results>>
  BY Zenon DEF Control, Start, StartPersists, OwnerMessage, OwnerReads, OwnerPersists,
         Terminate, TerminateClears, turnVars, Free
<1>c. Counted' /\ Locked'
  BY <1>0, Zenon DEF Inv, Counted, Locked
<1>1. CASE Start \/ OwnerMessage \/ Terminate
  <2>1. /\ owner = "none" /\ owner' \in {"start", "read", "terminate"}
        /\ owner' = "read" => IsResolvable(stored)
        /\ owner' = "start" => runs < MaxRuns
        /\ UNCHANGED <<stored, saved, read, runs, stopped>>
    BY <1>1, Zenon DEF Start, OwnerMessage, Terminate
  <2>2. read = NoRun /\ TypeOK'
    BY <1>0, <2>1, Zenon DEF Inv, TypeOK
  <2>3. Sounds' /\ Numbered' /\ Stored' /\ Fresh'
    BY <1>0, <2>1 DEF Inv, Sounds, Sound, Numbered, Stored, Fresh
  <2>4. Resolving'
    BY <2>1, <2>2, Zenon DEF Inv, Sounds, Sound, Resolving, IsResolvable
  <2> QED BY <1>c, <2>2, <2>3, <2>4, Zenon DEF Inv
<1>2. CASE StartPersists
  <2>1. /\ runs \in Nat /\ runs' = runs + 1 /\ runs' \in 1 .. MaxRuns
        /\ owner = "start" /\ owner' = "none" /\ read = NoRun
        /\ stored' = NewRun(runs') /\ saved' = stored'
        /\ UNCHANGED <<read, stopped>>
    BY <1>2 DEF Inv, TypeOK, StartPersists
  <2>2. /\ stored' \in Run /\ Sound(stored') /\ stored' # NoRun
        /\ stored'.id = runs' /\ stored'.phase = "Executing"
    BY <2>1, NewRunSound, Zenon
  <2>3. handler # NoRun => handler.id <= runs /\ handler.id \in Nat
    BY DEF Inv, TypeOK, RunOrNone, Run, Numbered
  <2>4. TypeOK'
    BY <1>0, <2>1, <2>2 DEF Inv, TypeOK, RunOrNone
  <2>5. Sounds' /\ Numbered'
    <3>1. Sounds'
      BY <1>0, <2>1, <2>2, Zenon DEF Inv, Sounds, Sound
    <3>2. Numbered'
      BY <1>0, <2>1, <2>2, <2>3 DEF Inv, Numbered
    <3> QED BY <3>1, <3>2, Zenon
  <2>6. Stored' /\ Fresh' /\ Resolving'
    BY <1>0, <2>1, <2>2, <2>3 DEF Stored, Fresh, Resolving
  <2> QED BY <1>c, <2>4, <2>5, <2>6, Zenon DEF Inv
<1>3. CASE OwnerReads
  <2>1. /\ owner = "read" /\ owner' = "persist" /\ read' = stored /\ stored # NoRun
        /\ stored.phase = "Blocked" /\ stored \in Run
        /\ UNCHANGED <<stored, saved, runs, stopped>>
    BY <1>3, Zenon DEF Inv, TypeOK, RunOrNone, Resolving, OwnerReads
  <2>2. TypeOK'
    BY <1>0, <2>1, Zenon DEF Inv, TypeOK
  <2>3. Sounds' /\ Numbered' /\ Stored' /\ Fresh'
    BY <1>0, <2>1, Zenon DEF Inv, Sounds, Sound, Numbered, Stored, Fresh
  <2>4. Resolving'
    BY <1>0, <2>1, Zenon DEF Inv, Fresh, Resolving
  <2> QED BY <1>c, <2>2, <2>3, <2>4, Zenon DEF Inv
<1>4. CASE OwnerPersists
  <2>1. /\ owner = "persist" /\ owner' = "none" /\ read # NoRun /\ read \in Run
        /\ stored' = OnOwnerResolve(read) /\ saved' = stored' /\ read' = NoRun
        /\ UNCHANGED <<runs, stopped>>
    BY <1>4, Zenon DEF Inv, TypeOK, RunOrNone, OwnerPersists
  <2>2. /\ stored' \in Run /\ Sound(stored') /\ stored'.phase = "Verifying"
        /\ stored'.id = read.id /\ stored'.step = read.step /\ stored'.done = read.done
    BY <2>1, OnOwnerResolveSound, Zenon
  <2>3. handler # NoRun => BlockedCopy(handler, read)
    BY <2>1, Zenon DEF Inv, Resolving
  <2>4. TypeOK'
    BY <1>0, <2>1, <2>2, Zenon DEF Inv, TypeOK, RunOrNone
  <2>5. Sounds' /\ Numbered'
    BY <1>0, <2>1, <2>2, Zenon DEF Inv, Sounds, Sound, Numbered
  <2>6. Stored' /\ Fresh' /\ Resolving'
    BY <1>0, <2>1, <2>2, <2>3, Zenon DEF Stored, Fresh, Resolving, Agree, BlockedCopy
  <2> QED BY <1>c, <2>4, <2>5, <2>6, Zenon DEF Inv
<1>5. CASE TerminateClears
  <2>1. /\ owner = "terminate" /\ owner' = "none" /\ read = NoRun
        /\ stored' = NoRun /\ saved' = NoRun
        /\ stopped' = stopped \cup {r.id : r \in {stored} \ {NoRun}}
        /\ UNCHANGED <<read, runs>>
    BY <1>5, Zenon DEF Inv, TypeOK, TerminateClears
  <2>2. stopped' \subseteq 1 .. MaxRuns
    BY <2>1, Zenon DEF Inv, TypeOK, RunOrNone, Run
  <2>3. TypeOK'
    BY <1>0, <2>1, <2>2, Zenon DEF Inv, TypeOK, RunOrNone
  <2>4. Sounds' /\ Numbered' /\ Stored' /\ Fresh' /\ Resolving'
    BY <1>0, <2>1, Zenon DEF Inv, Sounds, Sound, Numbered, Stored, Fresh, Resolving
  <2> QED BY <1>c, <2>3, <2>4, Zenon DEF Inv
<1> QED BY <1>1, <1>2, <1>3, <1>4, <1>5, Zenon DEF Control

\* The checkpoint, and the restart that recovers from it.
LEMMA CheckpointInv ==
  ASSUME Inv, CleanupWorkflowExit \/ SaveCheckpoint \/ Restart
  PROVE  Inv'
<1> USE ConstantsAssumption, NoRunAssumption
<1>1. CASE CleanupWorkflowExit \/ SaveCheckpoint
  <2>1. /\ saved' \in {NoRun, stored} /\ cleanup' \in BOOLEAN
        /\ UNCHANGED <<handler, stored, owner, read, runs, restarts, nags, turn, tails,
                       results, stopped>>
    BY <1>1, Zenon DEF Inv, TypeOK, CleanupWorkflowExit, SaveCheckpoint, turnVars, ownerVars
  <2>2. TypeOK'
    BY <2>1 DEF Inv, TypeOK, RunOrNone
  <2>3. Sound(saved') /\ (saved' # NoRun => saved'.id <= runs)
    BY <2>1, Zenon DEF Inv, Sounds, Sound, Numbered
  <2> QED BY <2>1, <2>2, <2>3, CopiesUntouched, Zenon
<1>2. CASE Restart
  <2>1. /\ restarts \in Nat /\ restarts < MaxRestarts /\ restarts' = restarts + 1
        /\ handler' = NoRun /\ stored' \in {saved, MarkBlocked(saved), NoRun}
        /\ stored' \in {saved, NoRun} \/ saved # NoRun
        /\ saved' \in {saved, NoRun}
        /\ turn' = "none" /\ tails' = 0 /\ results' = NoResults
        /\ owner' = "none" /\ read' = NoRun /\ cleanup' = FALSE
        /\ UNCHANGED <<runs, nags, stopped>>
    BY <1>2 DEF Inv, TypeOK, Restart, IsActive
  <2>2. /\ stored' \in RunOrNone /\ Sound(stored')
        /\ stored' # NoRun => stored'.id <= runs
    <3>1. CASE stored' = NoRun
      BY <3>1, Zenon DEF RunOrNone, Sound
    <3>2. CASE stored' = saved
      BY <3>2, Zenon DEF Inv, TypeOK, RunOrNone, Sounds, Numbered
    <3>3. CASE stored' = MarkBlocked(saved) /\ saved # NoRun
      BY <3>3, MarkBlockedSound, Zenon DEF Inv, TypeOK, RunOrNone, Sounds, Numbered
    <3> QED BY <2>1, <3>1, <3>2, <3>3, Zenon
  <2>3. TypeOK'
    <3>1. results' \in [processed : BOOLEAN, jumped : BOOLEAN, wasJumping : BOOLEAN]
      BY <2>1, Zenon DEF NoResults
    <3>2. restarts' \in 0 .. MaxRestarts /\ tails' \in 0 .. MaxTails
      BY <2>1
    <3> QED BY <2>1, <2>2, <3>1, <3>2, Zenon DEF Inv, TypeOK, RunOrNone
  <2>4. Sounds' /\ Numbered'
    BY <2>1, <2>2, Zenon DEF Inv, Sounds, Sound, Numbered
  <2>5. Counted'
    <3>1. nags <= MostNags * restarts + MostNags
      <4>1. handler # NoRun => handler.count \in Nat /\ handler.count <= MostNags
        BY Zenon DEF Inv, TypeOK, RunOrNone, Run, Sounds, Sound
      <4>2. nags \in Nat /\ MostNags * restarts \in Nat
        BY <2>1, MostNagsType DEF Inv, TypeOK
      <4> QED BY <4>1, <4>2, MostNagsType DEF Inv, Counted
    <3>2. MostNags * (restarts + 1) = MostNags * restarts + MostNags
      BY <2>1, MostNagsType
    <3>3. MostNags * (restarts + 1) \in Nat
      BY <2>1, MostNagsType
    <3> QED BY <2>1, <3>1, <3>2, <3>3 DEF Counted
  <2>6. Stored' /\ Fresh' /\ Resolving' /\ Locked'
    BY <2>1, Zenon DEF Stored, Fresh, Resolving, Locked
  <2> QED BY <2>3, <2>4, <2>5, <2>6, Zenon DEF Inv
<1> QED BY <1>1, <1>2, Zenon

-----------------------------------------------------------------------------
\* Every step keeps the invariant.
LEMMA NextInv == Inv /\ [Next]_vars => Inv'
<1> SUFFICES ASSUME Inv, [Next]_vars PROVE Inv'
  OBVIOUS
<1>1. CASE UNCHANGED vars
  <2>1. TypeOK' /\ Locked'
    BY <1>1, Zenon DEF vars, Inv, TypeOK, Locked
  <2>2. Sounds'
    BY <1>1, Zenon DEF vars, Inv, Sounds, Sound
  <2>3. Numbered' /\ Counted'
    BY <1>1, Zenon DEF vars, Inv, Numbered, Counted
  <2>4. Stored' /\ Fresh' /\ Resolving'
    BY <1>1, Zenon DEF vars, Inv, Stored, Fresh, Resolving
  <2> QED BY <2>1, <2>2, <2>3, <2>4, Zenon DEF Inv
<1>2. CASE Next
  BY <1>2, TurnInv, HookInv, ControlInv, CheckpointInv, Zenon DEF Next
<1> QED BY <1>1, <1>2, Zenon

\* The inductive invariant holds in every reachable state.
THEOREM Invariance == Spec => []Inv
BY InitInv, NextInv, PTL DEF Spec

\* Types, and that a call for the owner holds a run exactly when it is about to
\* persist one.
THEOREM TypeCorrect == Spec => []TypeOK
<1>1. Inv => TypeOK
  BY Zenon DEF Inv
<1> QED BY <1>1, Invariance, PTL

\* owner_pause_kind may classify a pause by the reason alone.
THEOREM ReasonMeansBlocked == Spec => []ReasonIffBlocked
<1>1. Inv => ReasonIffBlocked
  BY DEF Inv, Sounds, Sound, ReasonIffBlocked
<1> QED BY <1>1, Invariance, PTL

\* The handler's and the session's copy of a run are at the same step.
THEOREM CopiesInStep == Spec => []CopiesAgree
<1>1. Inv => CopiesAgree
  BY Zenon DEF Inv, Stored, Agree, CopiesAgree
<1> QED BY <1>1, Invariance, PTL

\* The idle hook asks at most verify_retry_limit times in a row in each life of
\* the daemon.
THEOREM NeverAskedForEver == Spec => []NagsBounded
<1>1. Inv => NagsBounded
  <2> SUFFICES ASSUME Inv PROVE NagsBounded
    OBVIOUS
  <2>1. /\ nags \in Nat /\ restarts \in Nat
        /\ handler # NoRun => handler.count \in Nat /\ handler.count <= MostNags
    <3>1. nags \in Nat /\ restarts \in Nat
      BY ConstantsAssumption DEF Inv, TypeOK
    <3>2. handler # NoRun => handler.count \in Nat
      BY Zenon DEF Inv, TypeOK, RunOrNone, Run
    <3>3. handler # NoRun => handler.count <= MostNags
      BY Zenon DEF Inv, Sounds, Sound
    <3> QED BY <3>1, <3>2, <3>3, Zenon
  <2>2. MostNags * restarts \in Nat /\ MostNags * (restarts + 1) = MostNags * restarts + MostNags
    BY <2>1, MostNagsType
  <2> QED BY <2>1, <2>2, MostNagsType DEF Inv, Counted, NagsBounded
<1> QED BY <1>1, Invariance, PTL

\* Whatever the agent calls and whenever the idle hook runs, a blocked handler
\* stays blocked at its step until the process ends.
THEOREM OnlyTheOwnerUnblocks == Spec => AgentCannotUnblock
<1>1. ASSUME Inv, [Next]_vars, handler # NoRun, handler.phase = "Blocked"
      PROVE  \/ handler' = NoRun
             \/ /\ handler'.phase = "Blocked"
                /\ handler'.step = handler.step /\ handler'.id = handler.id
  <2>0. handler \in Run
    BY <1>1, Zenon DEF Inv, TypeOK, RunOrNone
  <2>1. CASE BlockedResult
    <3>1. handler' = [handler EXCEPT !.phase = "Blocked", !.reason = "agent"]
      BY <2>1, Zenon DEF BlockedResult, HandleBlocked
    <3> QED BY <2>0, <3>1, Zenon DEF Run
  <2>2. CASE VerifyResult \/ JumpResult
    BY <2>2, <1>1, Zenon DEF VerifyResult, JumpResult, HandleVerify, HandleJump
  <2>3. CASE \/ BeginTurn \/ TurnFails \/ RejectStart \/ BeginResults \/ StartResult
             \/ EndResults \/ CleanupWorkflowExit \/ Hook \/ Control
             \/ SaveCheckpoint \/ Restart \/ UNCHANGED vars
    <3>1. handler' \in {handler, NoRun}
      BY <2>3, <1>1, Zenon DEF BeginTurn, TurnFails, RejectStart, BeginResults, StartResult,
         EndResults, CleanupWorkflowExit, Hook, IdleHook, IdleHookVerify, OnSessionIdle,
         EnsureHandler, Control, Start, StartPersists, OwnerMessage, OwnerReads,
         OwnerPersists, Terminate, TerminateClears, SaveCheckpoint, Restart, vars
    <3> QED BY <3>1, <1>1, Zenon
  <2> QED BY <1>1, <2>1, <2>2, <2>3, Zenon DEF Next, Turn
<1>2. Inv /\ [Next]_vars =>
        [(handler # NoRun /\ handler.phase = "Blocked") =>
           \/ handler' = NoRun
           \/ /\ handler'.phase = "Blocked"
              /\ handler'.step = handler.step /\ handler'.id = handler.id]_vars
  BY <1>1, Zenon
<1> QED BY <1>2, Invariance, PTL DEF Spec, AgentCannotUnblock
=============================================================================
