------------------------------- MODULE Workflow -------------------------------
(***************************************************************************)
(* The workflow of one session: the engine's state machine, and the two    *)
(* copies of the run it acts on.  A turn of the agent and the idle hook    *)
(* act on the copy in the WorkflowHandler; the owner's commands act on the *)
(* copy the session stores and its checkpoint keeps.                       *)
(*                                                                         *)
(* A run is reduced to the fields that decide what happens next.  The set  *)
(* done stands for step_history; timestamps, the goal hint, step_data and  *)
(* the messages put into and taken out of the transcript are left out, and *)
(* so are definitions that fail to load.  An answer sheet is an element of *)
(* Answers, and a when clause is the set of the sheets it accepts.         *)
(***************************************************************************)
EXTENDS Integers, Sequences, FiniteSetsExt

CONSTANTS
  NSteps,       \* number of steps of the definition
  HasJump,      \* steps with jump questions
  AllowBlocked, \* steps on which workflow_blocked is allowed
  Transitions,  \* the transitions of each step
  Answers,      \* answer sheets
  Blank,        \* the empty answer sheet
  Limit,        \* verify_retry_limit
  NoRun,        \* None
  MaxRuns,      \* bound on starts
  MaxRestarts,  \* bound on restarts of the daemon
  MaxTails      \* bound on finished turns whose idle hook is still to run

Steps == 0 .. NSteps - 1

ASSUME ConstantsAssumption ==
  /\ NSteps \in Nat \ {0} /\ HasJump \subseteq Steps /\ AllowBlocked \subseteq Steps
  /\ DOMAIN Transitions = Steps /\ Blank \in Answers
  /\ Limit \in Nat /\ MaxRuns \in Nat /\ MaxRestarts \in Nat /\ MaxTails \in Nat

\* validate_definition: the last transition of a step, and no other, is its
\* default, and a target is a step.
ValidDefinition ==
  \A s \in Steps :
    /\ Transitions[s] # <<>>
    /\ \A i \in DOMAIN Transitions[s] :
         LET t == Transitions[s][i]
         IN  /\ t.default <=> i = Len(Transitions[s])
             /\ t.action # "complete" => t.target \in Steps

ASSUME DefinitionAssumption == ValidDefinition

\* The paused reason; "none" is the empty one.
Reasons == {"none", "agent", "limit", "changed"}
Phases == {"Executing", "Verifying", "Jumping", "Blocked", "Complete"}

Run == [id : 1 .. MaxRuns, step : Steps, phase : Phases, count : Nat,
        reason : Reasons, done : SUBSET Steps]

ASSUME NoRunAssumption == NoRun \notin Run

VARIABLES
  handler,  \* the run in the WorkflowHandler, NoRun without a handler
  stored,   \* ConversationSession.workflow_run
  saved,    \* the workflow_run of the session's checkpoint
  turn,     \* "none", "llm", or "results": the write lock held to apply them
  tails,    \* finished turns whose idle hook is still to run
  results,  \* what process_content_blocks and its caller remember
  owner,    \* what the gateway does for the owner
  read,     \* the run on_owner_message has read
  cleanup,  \* the exit cleanup task is still to run
  runs,     \* runs started
  restarts, \* restarts of the daemon
  nags,     \* history: checklists since the agent last passed one
  stopped   \* history: runs the owner has terminated

turnVars == <<turn, tails, results>>
ownerVars == <<owner, read, runs, stopped>>
vars == <<handler, stored, saved, turn, tails, results, owner, read, cleanup,
          runs, restarts, nags, stopped>>

NoResults == [processed |-> FALSE, jumped |-> FALSE, wasJumping |-> FALSE]

-----------------------------------------------------------------------------
(* WorkflowEngine: operations on a run.  The fallible ones return the set  *)
(* of outcomes, empty when the engine returns an error.                    *)

\* WorkflowEngine::start
NewRun(id) == [id |-> id, step |-> 0, phase |-> "Executing", count |-> 0,
               reason |-> "none", done |-> {}]

IsActive(r) == r # NoRun /\ r.phase # "Complete"

\* on_session_idle
OnSessionIdle(r) == r.phase \in {"Executing", "Verifying", "Jumping"}

OnVerifyInjectedLate(r) ==  \* (mutant) the limit is exceeded, not reached
  LET n == r.count + 1
  IN IF n > Limit + 1
     THEN [r EXCEPT !.count = n, !.phase = "Blocked", !.reason = "limit"]
     ELSE [r EXCEPT !.count = n, !.phase = "Verifying"]

OnVerifyInjected(r) ==
  LET n == r.count + 1
  IN IF n >= Limit
     THEN [r EXCEPT !.count = n, !.phase = "Blocked", !.reason = "limit"]
     ELSE [r EXCEPT !.count = n, !.phase = "Verifying"]

ExecuteGoto(r, target) ==
  [r EXCEPT !.done = @ \cup {r.step}, !.step = target, !.count = 0, !.phase = "Executing"]

ExecuteReexecute(r, target) ==
  [r EXCEPT !.step = target, !.count = 0, !.phase = "Executing"]

\* The first transition whose when clause accepts the sheet, else the last
\* one without a when clause.
EvaluateTransitions(s, a) ==
  LET ts == Transitions[s]
      matching == {i \in DOMAIN ts : ~ts[i].default /\ a \in ts[i].when}
      defaults == {i \in DOMAIN ts : ts[i].default}
  IN IF matching # {} THEN {ts[Min(matching)]}
     ELSE IF defaults # {} THEN {ts[Max(defaults)]} ELSE {}

Execute(r, t) ==
  CASE t.action = "goto" -> {ExecuteGoto(r, x) : x \in {t.target} \cap Steps}
    [] t.action = "reexecute" -> {ExecuteReexecute(r, x) : x \in {t.target} \cap Steps}
    [] OTHER -> {[r EXCEPT !.phase = "Complete"]}

HandleVerifyUnblocks(r) ==  \* (mutant) passing a checklist lifts a block too
  LET passed == [r EXCEPT !.count = 0, !.reason = "none"]
  IN IF r.phase \notin {"Verifying", "Blocked"} THEN {}
     ELSE IF r.step \in HasJump THEN {[passed EXCEPT !.phase = "Jumping"]}
     ELSE UNION {Execute(passed, t) : t \in EvaluateTransitions(r.step, Blank)}

HandleVerify(r) ==
  LET passed == [r EXCEPT !.count = 0]
  IN IF r.phase # "Verifying" THEN {}
     ELSE IF r.step \in HasJump THEN {[passed EXCEPT !.phase = "Jumping"]}
     ELSE UNION {Execute(passed, t) : t \in EvaluateTransitions(r.step, Blank)}

HandleJump(r, a) ==
  IF r.phase # "Jumping" THEN {}
  ELSE UNION {Execute(r, t) : t \in EvaluateTransitions(r.step, a)}

\* A run blocked because its step is gone has no step to allow a block on.  The
\* workflow_blocked tool has rejected an empty reason.
HandleBlocked(r) ==
  IF r.step \notin AllowBlocked \/ r.reason = "changed" THEN {}
  ELSE {[r EXCEPT !.phase = "Blocked", !.reason = "agent"]}

OnOwnerResolve(r) == [r EXCEPT !.count = 0, !.reason = "none", !.phase = "Verifying"]

\* mark_blocked, by the recovery of a run whose step is gone
MarkBlocked(r) == [r EXCEPT !.phase = "Blocked", !.reason = "changed"]

\* owner_pause_kind
IsResolvable(r) == r # NoRun /\ r.reason \notin {"none", "changed"}

\* ensure_workflow_handler
EnsureHandler == IF handler = NoRun THEN stored ELSE handler

-----------------------------------------------------------------------------
Init ==
  /\ handler = NoRun /\ stored = NoRun /\ saved = NoRun
  /\ turn = "none" /\ tails = 0 /\ results = NoResults
  /\ owner = "none" /\ read = NoRun /\ cleanup = FALSE
  /\ runs = 0 /\ restarts = 0 /\ nags = 0 /\ stopped = {}

\* Every message to the session starts a turn; messages that come during one
\* wait in the pending queue and start one after it.
BeginTurn ==
  /\ turn = "none" /\ tails < MaxTails
  /\ turn' = "llm"
  /\ UNCHANGED <<handler, stored, saved, tails, results, cleanup, restarts, nags>>
  /\ UNCHANGED ownerVars

\* The turn fails, or it holds no tool result of a workflow and no handler
\* exists to look for one.
TurnFails ==
  /\ turn = "llm"
  /\ turn' = "none" /\ tails' = tails + 1
  /\ UNCHANGED <<handler, stored, saved, results, cleanup, restarts, nags>>
  /\ UNCHANGED ownerVars

\* process_workflow_tool_results turns a workflow_start away while a run is
\* active, with all that came beside it.
RejectStart ==
  /\ turn = "llm" /\ IsActive(stored)
  /\ handler' = EnsureHandler
  /\ turn' = "none" /\ tails' = tails + 1
  /\ UNCHANGED <<stored, saved, results, cleanup, restarts, nags>>
  /\ UNCHANGED ownerVars

BeginResults ==
  /\ turn = "llm" /\ EnsureHandler # NoRun
  /\ handler' = EnsureHandler
  /\ turn' = "results"
  /\ results' = [NoResults EXCEPT !.wasJumping = handler'.phase = "Jumping"]
  /\ UNCHANGED <<stored, saved, tails, cleanup, restarts, nags>>
  /\ UNCHANGED ownerVars

\* handle_start_result only resets the goal hint.
StartResult ==
  /\ turn = "results" /\ ~IsActive(stored)
  /\ results' = [results EXCEPT !.processed = TRUE]
  /\ UNCHANGED <<handler, stored, saved, turn, tails, cleanup, restarts, nags>>
  /\ UNCHANGED ownerVars

VerifyResult ==
  /\ turn = "results"
  /\ \E r \in HandleVerify(handler) :
       /\ handler' = r
       /\ results' = [results EXCEPT !.processed = TRUE,
                                     !.jumped = @ \/ r.phase = "Jumping"]
  /\ nags' = 0
  /\ UNCHANGED <<stored, saved, turn, tails, cleanup, restarts>>
  /\ UNCHANGED ownerVars

\* JumpResult::Completed replaces an earlier Jumped.
JumpResult ==
  /\ turn = "results"
  /\ \E a \in Answers : \E r \in HandleJump(handler, a) :
       /\ handler' = r
       /\ results' = [results EXCEPT !.processed = TRUE,
                                     !.jumped = @ /\ r.phase # "Complete"]
  /\ UNCHANGED <<stored, saved, turn, tails, cleanup, restarts, nags>>
  /\ UNCHANGED ownerVars

BlockedResult ==
  /\ turn = "results"
  /\ \E r \in HandleBlocked(handler) : handler' = r
  /\ results' = [results EXCEPT !.processed = TRUE]
  /\ UNCHANGED <<stored, saved, turn, tails, cleanup, restarts, nags>>
  /\ UNCHANGED ownerVars

EndResultsUnstored ==  \* (mutant) what the results did is not stored
  /\ turn = "results"
  /\ turn' = "none" /\ tails' = tails + 1 /\ results' = NoResults
  /\ cleanup' = cleanup
  /\ UNCHANGED <<handler, stored, saved, restarts, nags>>
  /\ UNCHANGED ownerVars

\* The rest of process_workflow_tool_results and dispatch_post_jump_phase.  The
\* exit cleanup runs on a clone of the session.
EndResults ==
  LET dispatched == results.wasJumping /\ ~results.jumped
  IN /\ turn = "results"
     /\ turn' = "none" /\ tails' = tails + 1 /\ results' = NoResults
     /\ stored' = IF \/ results.processed
                     \/ (dispatched /\ handler.phase \in {"Executing", "Complete"})
                  THEN handler ELSE stored
     /\ cleanup' = (cleanup \/ (dispatched /\ handler.phase = "Complete"))
     /\ UNCHANGED <<handler, saved, restarts, nags>>
     /\ UNCHANGED ownerVars

\* The only effect of cleanup_workflow_exit outside the clone.
CleanupWorkflowExit ==
  /\ cleanup
  /\ cleanup' = FALSE /\ saved' = NoRun
  /\ UNCHANGED <<handler, stored, restarts, nags>>
  /\ UNCHANGED turnVars /\ UNCHANGED ownerVars

\* maybe_inject_workflow_verify at the end of finish_llm.  A session with an
\* active dimension, or a drain that was skipped, injects nothing, and the jump
\* question that is injected in the phase Jumping changes no run.
IdleHook ==
  /\ tails > 0 /\ turn # "results"
  /\ tails' = tails - 1
  /\ handler' = EnsureHandler
  /\ UNCHANGED nags
  /\ UNCHANGED <<stored, saved, turn, results, cleanup, restarts>>
  /\ UNCHANGED ownerVars

IdleHookVerify ==
  /\ tails > 0 /\ turn = "none"
  /\ EnsureHandler # NoRun
  /\ OnSessionIdle(EnsureHandler) /\ EnsureHandler.phase # "Jumping"
  /\ tails' = tails - 1
  /\ handler' = OnVerifyInjected(EnsureHandler)
  /\ nags' = nags + 1
  /\ UNCHANGED <<stored, saved, turn, results, cleanup, restarts>>
  /\ UNCHANGED ownerVars

-----------------------------------------------------------------------------
(* WorkflowEngineControl, called by the gateway for the owner: one call at *)
(* a time, each access to the session under a lock of its own.             *)

Free == turn # "results"

\* start: a run that is active turns the command away.
Start ==
  /\ owner = "none" /\ Free /\ runs < MaxRuns /\ ~IsActive(stored)
  /\ owner' = "start"
  /\ UNCHANGED <<handler, stored, saved, cleanup, restarts, nags, read, runs, stopped>>
  /\ UNCHANGED turnVars

StartPersists ==
  /\ owner = "start" /\ Free
  /\ runs' = runs + 1
  /\ stored' = NewRun(runs') /\ saved' = stored'
  /\ owner' = "none"
  /\ UNCHANGED <<handler, cleanup, restarts, nags, read, stopped>>
  /\ UNCHANGED turnVars

\* on_owner_message: owner_pause_kind
OwnerMessage ==
  /\ owner = "none" /\ Free /\ IsResolvable(stored)
  /\ owner' = "read"
  /\ UNCHANGED <<handler, stored, saved, cleanup, restarts, nags, read, runs, stopped>>
  /\ UNCHANGED turnVars

\* read_workflow_run; the definition is loaded and the checklist queued
\* before the run is persisted.
OwnerReads ==
  /\ owner = "read" /\ Free
  /\ read' = stored
  /\ owner' = IF stored = NoRun THEN "none" ELSE "persist"
  /\ UNCHANGED <<handler, stored, saved, cleanup, restarts, nags, runs, stopped>>
  /\ UNCHANGED turnVars

OwnerPersists ==
  /\ owner = "persist" /\ Free
  /\ stored' = OnOwnerResolve(read) /\ saved' = stored'
  /\ owner' = "none" /\ read' = NoRun
  /\ UNCHANGED <<handler, cleanup, restarts, nags, runs, stopped>>
  /\ UNCHANGED turnVars

\* terminate, after the owner's /stop
Terminate ==
  /\ owner = "none" /\ Free /\ IsActive(stored)
  /\ owner' = "terminate"
  /\ UNCHANGED <<handler, stored, saved, cleanup, restarts, nags, read, runs, stopped>>
  /\ UNCHANGED turnVars

TerminateClears ==
  /\ owner = "terminate" /\ Free
  /\ stopped' = stopped \cup {r.id : r \in {stored} \ {NoRun}}
  /\ stored' = NoRun /\ saved' = NoRun
  /\ owner' = "none"
  /\ UNCHANGED <<handler, cleanup, restarts, nags, read, runs>>
  /\ UNCHANGED turnVars

-----------------------------------------------------------------------------
\* persist_pending_checkpoint, for whatever reason the session has
SaveCheckpoint ==
  /\ Free
  /\ saved' = stored
  /\ UNCHANGED <<handler, stored, cleanup, restarts, nags>>
  /\ UNCHANGED turnVars /\ UNCHANGED ownerVars

\* The daemon stops and recovers the session from its checkpoint.  A store of
\* whole checkpoints, as RedisStorage, gives the run back; SqliteStorage keeps
\* no workflow_run.
Restart ==
  /\ restarts < MaxRestarts
  /\ restarts' = restarts + 1
  /\ handler' = NoRun
  /\ \/ stored' = saved /\ UNCHANGED saved
     \/ IsActive(saved) /\ stored' = MarkBlocked(saved) /\ UNCHANGED saved
     \/ stored' = NoRun /\ saved' = NoRun
  /\ turn' = "none" /\ tails' = 0 /\ results' = NoResults
  /\ owner' = "none" /\ read' = NoRun /\ cleanup' = FALSE
  /\ UNCHANGED <<runs, nags, stopped>>

-----------------------------------------------------------------------------
Turn == \/ TurnFails \/ RejectStart \/ BeginResults \/ StartResult \/ VerifyResult
        \/ JumpResult \/ BlockedResult \/ EndResults

Hook == IdleHook \/ IdleHookVerify

Control == \/ Start \/ StartPersists \/ OwnerMessage \/ OwnerReads
           \/ OwnerPersists \/ Terminate \/ TerminateClears

Next == \/ BeginTurn \/ Turn \/ CleanupWorkflowExit \/ Hook \/ Control
        \/ SaveCheckpoint \/ Restart

Spec == Init /\ [][Next]_vars

OwnerFinishes == StartPersists \/ OwnerReads \/ OwnerPersists \/ TerminateClears

\* Turns end, hooks run, a call for the owner that has begun is finished, and
\* the owner answers whenever an answer would be taken for one.  Strong
\* fairness where the session's lock is waited for: tokio's RwLock is a queue.
FairSpec ==
  /\ Spec
  /\ WF_vars(Turn) /\ WF_vars(Hook)
  /\ SF_vars(OwnerFinishes) /\ SF_vars(OwnerMessage)

-----------------------------------------------------------------------------
RunOrNone == Run \cup {NoRun}

\* Types; an owner call that is about to persist a run has read one, and only
\* it holds one.
TypeOK ==
  /\ handler \in RunOrNone /\ stored \in RunOrNone /\ saved \in RunOrNone
  /\ turn \in {"none", "llm", "results"}
  /\ tails \in 0 .. MaxTails /\ (turn # "none" => tails < MaxTails)
  /\ results \in [processed : BOOLEAN, jumped : BOOLEAN, wasJumping : BOOLEAN]
  /\ owner \in {"none", "start", "read", "persist", "terminate"}
  /\ read \in RunOrNone /\ (read # NoRun <=> owner = "persist")
  /\ cleanup \in BOOLEAN /\ restarts \in 0 .. MaxRestarts
  /\ runs \in 0 .. MaxRuns /\ (owner = "start" => runs < MaxRuns)
  /\ nags \in Nat /\ stopped \subseteq 1 .. MaxRuns

\* A copy of the run has a paused reason exactly while it is blocked, which is
\* what owner_pause_kind takes for granted when it classifies a pause by the
\* reason alone: also for runs that were stored, saved, recovered, or moved on
\* after the owner lifted a block.
ReasonIffBlocked ==
  \A r \in {handler, stored, saved} \ {NoRun} :
    r.reason # "none" <=> r.phase = "Blocked"

\* The handler and the session hold two copies of a run and update them at
\* different moments, but outside the lock of a turn's results they are always
\* at the same step with the same history, and agree on whether the agent is
\* answering jump questions and on whether the run is complete.
CopiesAgree ==
  (/\ turn # "results" /\ handler # NoRun /\ stored # NoRun
   /\ handler.id = stored.id) =>
     /\ handler.step = stored.step /\ handler.done = stored.done
     /\ (handler.phase = "Jumping") = (stored.phase = "Jumping")
     /\ (handler.phase = "Complete") = (stored.phase = "Complete")

\* The most checklists in a row that one process injects.
MostNags == IF Limit = 0 THEN 1 ELSE Limit

\* The agent is never asked for ever: between two checklists it passes, the
\* idle hook injects at most verify_retry_limit of them in each life of the
\* daemon, although the count it goes by is not stored when it changes.
NagsBounded == nags <= MostNags * (restarts + 1)

\* Only the owner lifts a block: no tool result of the agent and no idle hook,
\* in whatever order they come, moves a blocked run to another phase or step.
AgentCannotUnblock ==
  [][(handler # NoRun /\ handler.phase = "Blocked") =>
       \/ handler' = NoRun
       \/ /\ handler'.phase = "Blocked"
          /\ handler'.step = handler.step /\ handler'.id = handler.id]_vars

\* What the design says of a resolvable pause: a message of the owner lifts it,
\* unless they stop the run.  Stated of the handler's copy, the one the agent's
\* calls are checked against.
BlockIsLifted ==
  IsResolvable(handler) ~> (~IsResolvable(handler) \/ stopped # {})

\* What the design says of /stop: the engine injects no checklist for a run
\* that the owner has terminated.
StoppedIsSilent == [][nags' > nags => handler'.id \notin stopped]_vars
=============================================================================
