------------------------------- MODULE Shutdown -------------------------------
(***************************************************************************)
(* The daemon's shutdown: the state machine of ShutdownCoordinator, the    *)
(* drain task of Phase 1, the signals the main task reads, the stop of the *)
(* session tree level by level in Phase 2, and the turns that pass the     *)
(* shutdown gate meanwhile.                                                *)
(*                                                                         *)
(* Every load, compare-exchange and store of the state is a step of its    *)
(* own: the drain task and the main task run on different threads.  The    *)
(* signal stream coalesces, so one pending signal is all it can hold.      *)
(***************************************************************************)
EXTENDS Integers, Sequences

CONSTANTS
  Turns,      \* user turns that may be dispatched
  Levels,     \* number of levels of the session tree
  MaxSignals  \* bound on the signals the operator sends

ASSUME ShutdownConstants == Levels \in Nat /\ MaxSignals \in Nat

VARIABLES
  state,          \* ShutdownCoordinator.state
  phase,          \* where run() is
  restartPending, \* the gateway restart is Pending when the signal is read
  sent,           \* signals sent so far
  signal,         \* a signal is waiting in the subscribed stream
  esc,            \* escalate_to_forceful in progress: [try, seen], or NoEsc
  drain,          \* where initiate_shutdown's task is
  why,            \* why wait_for_drain ended its wait
  mode,           \* the mode run() passes to Phase 2 and Phase 4
  level,          \* levels stop_all_sessions has still to stop
  stopping,       \* the level in progress, and the mode it was started with
  stopModes,      \* history: the mode of every level started so far
  asked,          \* history: forceful was granted in Phase 0 or 1 ("early")
                  \* or in Phase 2 ("late")
  turn            \* the dispatch of each turn

stopVars == <<level, stopping, stopModes>>
shutdownVars == <<state, phase, restartPending, sent, signal, esc, drain, why, mode,
          level, stopping, stopModes, asked, turn>>

ShutdownState ==
  {"Running", "ShuttingDown", "Draining", "Stopped", "ForcefulShuttingDown"}
Phase == {"run", "notify", "drain", "unsubscribed", "sessions", "background",
          "persist", "closing", "exited"}
Mode == {"Graceful", "Forceful"}
Drain == {"off", "wait", "decided", "draining", "done"}
Turn == {"idle", "passed", "busy", "done"}
NoEsc == [try |-> 0, seen |-> "Running"]
NotStopping == "none"

ShutdownInit ==
  /\ state = "Running" /\ phase = "run"
  /\ restartPending \in BOOLEAN
  /\ sent = 0 /\ signal = FALSE /\ esc = NoEsc
  /\ drain = "off" /\ why = "none"
  /\ mode = "Graceful"
  /\ level = Levels /\ stopping = NotStopping /\ stopModes = <<>>
  /\ asked = "no"
  /\ turn = [t \in Turns |-> "idle"]

-----------------------------------------------------------------------------
(* Reading the state.                                                      *)

\* is_shutting_down_state: note that Stopped is not in it.
IsShuttingDown == state \in {"ShuttingDown", "Draining", "ForcefulShuttingDown"}

IsForceful == state = "ForcefulShuttingDown"

\* ShutdownState::mode.
ModeOf(s) == IF s = "ForcefulShuttingDown" THEN "Forceful" ELSE "Graceful"

Busy == {t \in Turns : turn[t] = "busy"}

-----------------------------------------------------------------------------
(* Signals and Phase 0.                                                    *)

\* The operator sends SIGTERM or SIGINT.
SendSignal ==
  /\ sent < MaxSignals /\ phase # "exited"
  /\ sent' = sent + 1
  /\ signal' = TRUE
  /\ UNCHANGED <<state, phase, restartPending, esc, drain, why, mode, stopVars,
                 asked, turn>>

\* A gateway restart becomes pending, or stops being so.
ToggleRestart ==
  /\ phase = "run"
  /\ restartPending' = ~restartPending
  /\ UNCHANGED <<state, phase, sent, signal, esc, drain, why, mode, stopVars,
                 asked, turn>>

\* run() reads the first signal: start_shutdown_for_signal picks the mode and
\* does the compare-exchange from Running.
StartShutdownForSignal ==
  /\ phase = "run" /\ signal
  /\ signal' = FALSE
  /\ state' = IF restartPending THEN "ForcefulShuttingDown" ELSE "ShuttingDown"
  /\ asked' = IF restartPending THEN "early" ELSE "no"
  /\ phase' = "notify"
  /\ UNCHANGED <<restartPending, sent, esc, drain, why, mode, stopVars, turn>>

-----------------------------------------------------------------------------
(* escalate_to_forceful, called by the main task for a repeated signal.    *)

Escalating == esc # NoEsc

\* What a load of the state leads to: a compare-exchange against what was
\* seen, or the end of the call.
AfterLoad(n) ==
  IF state \in {"ForcefulShuttingDown", "Running"} THEN NoEsc
  ELSE [try |-> n, seen |-> state]

EscalateLoad ==
  /\ phase \in {"drain", "sessions"} /\ signal /\ ~Escalating
  /\ signal' = FALSE
  /\ esc' = AfterLoad(1)
  /\ UNCHANGED <<state, phase, restartPending, sent, drain, why, mode, stopVars,
                 asked, turn>>

\* The compare-exchange; one more round if it fails the first time.
EscalateExchange ==
  /\ Escalating
  /\ \/ /\ state = esc.seen
        /\ state' = "ForcefulShuttingDown"
        /\ asked' = IF phase = "drain" THEN "early" ELSE "late"
        /\ esc' = NoEsc
     \/ /\ state # esc.seen
        /\ esc' = IF esc.try = 1 THEN AfterLoad(2) ELSE NoEsc
        /\ UNCHANGED <<state, asked>>
  /\ UNCHANGED <<phase, restartPending, sent, signal, drain, why, mode,
                 stopVars, turn>>

-----------------------------------------------------------------------------
(* Phase 1: the plugins' inbound side is closed, the drain task waits.     *)

\* Phase 1 spawns initiate_shutdown.  Its try_start_shutdown fails, Phase 0
\* having left Running, and both other branches lead to wait_for_drain.
StartDrain ==
  /\ phase = "notify"
  /\ phase' = "drain"
  /\ drain' = "wait"
  /\ UNCHANGED <<state, restartPending, sent, signal, esc, why, mode, stopVars,
                 asked, turn>>

\* (mutant) The wait ends only when nothing is in flight.
WaitForDrainNoTimeout ==
  /\ drain = "wait"
  /\ drain' = "decided"
  /\ \/ IsForceful /\ why' = "forceful"
     \/ ~IsForceful /\ Busy = {} /\ why' = "idle"
  /\ UNCHANGED <<state, phase, restartPending, sent, signal, esc, mode, stopVars,
                 asked, turn>>

\* One poll of wait_for_drain that ends the wait.  The drain timeout may have
\* elapsed at any poll that finds something in flight.
WaitForDrain ==
  /\ drain = "wait"
  /\ drain' = "decided"
  /\ \/ IsForceful /\ why' = "forceful"
     \/ ~IsForceful /\ Busy = {} /\ why' = "idle"
     \/ ~IsForceful /\ Busy # {} /\ why' = "timeout"
  /\ UNCHANGED <<state, phase, restartPending, sent, signal, esc, mode, stopVars,
                 asked, turn>>

\* start_drain: a plain store, whatever the state has become.
StoreDraining ==
  /\ drain = "decided"
  /\ drain' = "draining"
  /\ state' = "Draining"
  /\ UNCHANGED <<phase, restartPending, sent, signal, esc, why, mode, stopVars,
                 asked, turn>>

\* mark_stopped: another plain store.
MarkStopped ==
  /\ drain = "draining"
  /\ drain' = "done"
  /\ state' = "Stopped"
  /\ UNCHANGED <<phase, restartPending, sent, signal, esc, why, mode, stopVars,
                 asked, turn>>

\* run() joins the drain task and reads the mode for the phases that follow;
\* Phase 2 spawns stop_all_sessions with it.
Phase1End ==
  /\ phase = "drain" /\ drain = "done" /\ ~Escalating
  /\ mode' = ModeOf(state)
  /\ phase' = "unsubscribed"
  /\ UNCHANGED <<state, restartPending, sent, signal, esc, drain, why, stopVars,
                 asked, turn>>

-----------------------------------------------------------------------------
(* Phase 2: the session tree is stopped from the leaves to the roots.      *)

\* Phase 2 subscribes afresh: a signal sent before is not seen.
Subscribe ==
  /\ phase = "unsubscribed"
  /\ phase' = "sessions"
  /\ signal' = FALSE
  /\ UNCHANGED <<state, restartPending, sent, esc, drain, why, mode, stopVars,
                 asked, turn>>

StopsSessions == phase \in {"unsubscribed", "sessions"}

\* (mutant) The level is stopped in the mode Phase 2 was started with.
ResolveEffectiveModeStale == mode

\* resolve_effective_mode: forceful if the handle is by now.
ResolveEffectiveMode == IF IsForceful THEN "Forceful" ELSE mode

\* stop_all_sessions starts the next level.
StartLevel ==
  /\ StopsSessions /\ stopping = NotStopping /\ level > 0
  /\ stopping' = ResolveEffectiveMode
  /\ stopModes' = Append(stopModes, ResolveEffectiveMode)
  /\ UNCHANGED <<state, phase, restartPending, sent, signal, esc, drain, why,
                 mode, level, asked, turn>>

\* (mutant) A forced stop uses the escalation up.
FinishLevelResets ==
  /\ StopsSessions /\ stopping # NotStopping
  /\ stopping' = NotStopping
  /\ level' = level - 1
  /\ state' = IF stopping = "Forceful" THEN "Stopped" ELSE state
  /\ UNCHANGED <<phase, restartPending, sent, signal, esc, drain, why, mode,
                 stopModes, asked, turn>>

\* The sessions of the level have stopped, or their graceful wait timed out,
\* or graceful_wait saw the escalation and force-stopped them.
FinishLevel ==
  /\ StopsSessions /\ stopping # NotStopping
  /\ \/ UNCHANGED stopModes
     \/ /\ stopping = "Graceful" /\ IsForceful
        /\ stopModes' = [stopModes EXCEPT ![Len(stopModes)] = "Forceful"]
  /\ stopping' = NotStopping
  /\ level' = level - 1
  /\ UNCHANGED <<state, phase, restartPending, sent, signal, esc, drain, why,
                 mode, asked, turn>>

\* Phase 2 joins the stop task.
Phase2End ==
  /\ phase = "sessions" /\ ~Escalating
  /\ level = 0 /\ stopping = NotStopping
  /\ phase' = "background"
  /\ UNCHANGED <<state, restartPending, sent, signal, esc, drain, why, mode,
                 stopVars, asked, turn>>

\* Phases 3 to 7, in which no signal is read any more.
NextPhase ==
  [background |-> "persist", persist |-> "closing", closing |-> "exited"]

LaterPhase ==
  /\ phase \in DOMAIN NextPhase
  /\ phase' = NextPhase[phase]
  /\ UNCHANGED <<state, restartPending, sent, signal, esc, drain, why, mode,
                 stopVars, asked, turn>>

-----------------------------------------------------------------------------
(* Turns.                                                                  *)

\* A message of a session that is not stopped reaches the shutdown gate.
PassGate(t) ==
  /\ turn[t] = "idle" /\ phase # "exited"
  /\ ~IsShuttingDown
  /\ turn' = [turn EXCEPT ![t] = "passed"]
  /\ UNCHANGED <<state, phase, restartPending, sent, signal, esc, drain, why,
                 mode, stopVars, asked>>

\* The task spawn_dispatch_task spawned is scheduled and counts itself.
CountTurn(t) ==
  /\ turn[t] = "passed" /\ phase # "exited"
  /\ turn' = [turn EXCEPT ![t] = "busy"]
  /\ UNCHANGED <<state, phase, restartPending, sent, signal, esc, drain, why,
                 mode, stopVars, asked>>

\* The LLM call ended.
EndTurn(t) ==
  /\ turn[t] = "busy" /\ phase # "exited"
  /\ turn' = [turn EXCEPT ![t] = "done"]
  /\ UNCHANGED <<state, phase, restartPending, sent, signal, esc, drain, why,
                 mode, stopVars, asked>>

-----------------------------------------------------------------------------
MainTask ==
  \/ StartShutdownForSignal \/ StartDrain \/ EscalateLoad \/ EscalateExchange
  \/ Phase1End \/ Subscribe \/ Phase2End \/ LaterPhase

DrainTask == WaitForDrain \/ StoreDraining \/ MarkStopped

StopTask == StartLevel \/ FinishLevel

TurnStep == \E t \in Turns : PassGate(t) \/ CountTurn(t) \/ EndTurn(t)

ShutdownNext ==
  SendSignal \/ ToggleRestart \/ MainTask \/ DrainTask \/ StopTask \/ TurnStep

ShutdownSpec == ShutdownInit /\ [][ShutdownNext]_shutdownVars

\* The runtime polls every task that is ready.  Nothing is assumed of turns,
\* which may take forever, nor of the operator.
FairShutdown ==
  /\ ShutdownSpec
  /\ WF_shutdownVars(MainTask) /\ WF_shutdownVars(DrainTask) /\ WF_shutdownVars(StopTask)

-----------------------------------------------------------------------------
(* Properties.                                                             *)

\* The type invariant.
ShutdownTypeOK ==
  /\ state \in ShutdownState /\ phase \in Phase
  /\ restartPending \in BOOLEAN
  /\ sent \in 0..MaxSignals /\ signal \in BOOLEAN
  /\ esc \in [try : 0..2, seen : ShutdownState]
  /\ drain \in Drain /\ why \in {"none", "forceful", "idle", "timeout"}
  /\ mode \in Mode
  /\ level \in 0..Levels /\ stopping \in Mode \cup {NotStopping}
  /\ stopModes \in Seq(Mode) /\ Len(stopModes) <= Levels
  /\ Len(stopModes) = Levels - level + (IF stopping = NotStopping THEN 0 ELSE 1)
  /\ asked \in {"no", "early", "late"}
  /\ turn \in [Turns -> Turn]

\* Escalation is one-way while the tree is being stopped: once a level has been
\* stopped forcefully, so is every level above it (stop_all_sessions asks for
\* the mode anew before each level).
StopModesMonotone ==
  \A i, j \in 1..Len(stopModes) :
    i < j /\ stopModes[i] = "Forceful" => stopModes[j] = "Forceful"

\* An escalation granted in Phase 2 reaches every level started after it: none
\* is stopped in the mode Phase 2 began with.
LateEscalationHonoured ==
  [][asked = "late" /\ Len(stopModes') > Len(stopModes)
       => stopModes'[Len(stopModes')] = "Forceful"]_shutdownVars

\* From the reading of the signal to the end of the drain no turn passes the
\* gate, through every race of the escalation with the drain task's stores.
GateClosedDuringDrain ==
  [][(\E t \in Turns : turn[t] = "idle" /\ turn'[t] = "passed")
       => phase = "run" \/ drain = "done"]_shutdownVars

\* A shutdown that begins is carried through to the exit, even if a turn in
\* flight never ends.
ShutdownEnds == phase = "notify" ~> phase = "exited"

\* shutdown.md: escalation is one-way, and the phases in progress or not begun
\* are carried out forcefully.
ForcefulOnceAsked ==
  [][asked # "no" /\ Len(stopModes') > Len(stopModes)
       => stopModes'[Len(stopModes')] = "Forceful"]_shutdownVars
=============================================================================
