--------------------------- MODULE BackgroundTasks ---------------------------
(***************************************************************************)
(* Background shell commands: the task manager (crates/tasks), the bash    *)
(* tool that hands commands to it and follows them (crates/tools), and the *)
(* session stop that kills them (crates/session).                          *)
(*                                                                         *)
(* Every task has a runner that owns the process, a monitor of the total   *)
(* execution time, a stuck detector, and a poller that keeps the session's *)
(* record of the tool call.  They share the task map and the notification  *)
(* list, take the map's lock for single steps, and await in between.       *)
(***************************************************************************)

CONSTANTS
  Tasks,      \* the bash calls that become background tasks
  Sessions,
  Owner       \* [Tasks -> Sessions], the session that makes the call

ASSUME TasksAssumption == Owner \in [Tasks -> Sessions]

VARIABLES
  call,      \* [Tasks -> ...] where the tool call stands
  tool,      \* [Tasks -> ...] tool_states of the owner: its entry of the call
  khandle,   \* [Tasks -> ...] tool_handles of the owner: the call's KillHandle
  state,     \* [Tasks -> ...] TaskHandle::state; "none" before, "gone" after
  notified,  \* [Tasks -> BOOLEAN] TaskHandle::notified
  killtx,    \* [Tasks -> ...] the oneshot: sender in the handle, or resolved
  permit,    \* [Tasks -> BOOLEAN] TaskHandle::timeout_notify has a permit
  dir,       \* [Tasks -> BOOLEAN] the output directory exists
  process,   \* [Tasks -> ...] the operating system's process
  runner,    \* [Tasks -> ...] the runner's program counter
  limit,     \* [Tasks -> ...] the execution-time monitor's program counter
  stuck,     \* [Tasks -> ...] the stuck detector's program counter
  poll,      \* [Tasks -> BOOLEAN] spawn_bg_monitor's loop is running
  notes,     \* the notification list: pairs <<task, priority>>
  read,      \* what turns drained: triples <<task, priority, session>>
  stop,      \* [Sessions -> ...] the session stop's program counter
  doomed     \* [Sessions -> SUBSET Tasks] kill_tool_handles' snapshot

handles == <<state, notified, killtx, permit>>
tracking == <<call, tool, khandle, poll>>
watchers == <<limit, stuck>>
stopping == <<stop, doomed>>
vars == <<handles, tracking, watchers, stopping, dir, process, runner, notes, read>>

Terminal == {"completed", "failed", "killed"}
InMap(t) == state[t] \in Terminal \cup {"running"}

\* Every notification ever pushed for a task.
Sent(t) == {p \in {"now", "next", "later"} :
              <<t, p>> \in notes \/ \E s \in Sessions : <<t, p, s>> \in read}

Init ==
  /\ call = [t \in Tasks |-> "idle"]
  /\ tool = [t \in Tasks |-> "none"]
  /\ khandle = [t \in Tasks |-> "none"]
  /\ state = [t \in Tasks |-> "none"]
  /\ notified = [t \in Tasks |-> FALSE]
  /\ killtx = [t \in Tasks |-> "none"]
  /\ permit = [t \in Tasks |-> FALSE]
  /\ dir = [t \in Tasks |-> FALSE]
  /\ process = [t \in Tasks |-> "none"]
  /\ runner = [t \in Tasks |-> "none"]
  /\ limit = [t \in Tasks |-> "none"]
  /\ stuck = [t \in Tasks |-> "none"]
  /\ poll = [t \in Tasks |-> FALSE]
  /\ notes = {}
  /\ read = {}
  /\ stop = [s \in Sessions |-> "no"]
  /\ doomed = [s \in Sessions |-> {}]

-----------------------------------------------------------------------------
(* The tool call. *)

\* execute_background_command registers the call; execute_foreground_command
\* spawns the process and registers call and kill handle.
Begin(t) ==
  /\ call[t] = "idle"
  /\ stop[Owner[t]] = "no"
  /\ \/ /\ call' = [call EXCEPT ![t] = "cold"]
        /\ tool' = [tool EXCEPT ![t] = "pending"]
        /\ UNCHANGED <<khandle, process>>
     \/ /\ call' = [call EXCEPT ![t] = "front"]
        /\ tool' = [tool EXCEPT ![t] = "foreground"]
        /\ khandle' = [khandle EXCEPT ![t] = "bash"]
        /\ process' = [process EXCEPT ![t] = "alive"]
  /\ UNCHANGED <<handles, watchers, stopping, poll, dir, runner, notes, read>>

\* update_tool_state with a terminal state removes the entry.
Settled(t) == [tool EXCEPT ![t] = "none"]

\* The call is over and no task was created: the foreground command ended
\* within its budget or was killed at it (handle_timeout_expiry with
\* force_terminate), or no task directory could be made.
EndsEarly(t) ==
  /\ call[t] \in {"cold", "front"}
  /\ call' = [call EXCEPT ![t] = "over"]
  /\ tool' = Settled(t)
  /\ \/ UNCHANGED process
     \/ process[t] = "alive" /\ process' = [process EXCEPT ![t] = "dead"]
  /\ UNCHANGED <<handles, watchers, stopping, khandle, poll, dir, runner, notes, read>>

\* BackgroundTaskManager::spawn and ::backgroundize: the directory and the
\* handle, then the stuck detector, the runner and the time monitor start.
Spawn(t) ==
  /\ call[t] \in {"cold", "front"}
  /\ call' = [call EXCEPT ![t] = IF @ = "cold" THEN "spawned" ELSE "adopted"]
  /\ dir' = [dir EXCEPT ![t] = TRUE]
  /\ state' = [state EXCEPT ![t] = "running"]
  /\ runner' = [runner EXCEPT ![t] = IF call[t] = "cold" THEN "spawn" ELSE "install"]
  /\ limit' = [limit EXCEPT ![t] = "sleep"]
  /\ stuck' = [stuck EXCEPT ![t] = "watch"]
  /\ UNCHANGED <<stopping, notified, killtx, permit, tool, khandle, poll, process, notes, read>>

\* update_tool_state with RunningBackground: an entry a stop has cleared stays
\* away.
Backgrounded(t) ==
  [tool EXCEPT ![t] = IF @ = "none" THEN "none" ELSE "background"]

\* The rest of execute_background_command, or of execute_command after an
\* AutoBackground outcome: only the former registers a BackgroundKillHandle.
Register(t) ==
  /\ call[t] \in {"spawned", "adopted"}
  /\ call' = [call EXCEPT ![t] = "over"]
  /\ khandle' = [khandle EXCEPT ![t] = IF call[t] = "spawned" THEN "task" ELSE @]
  /\ tool' = Backgrounded(t)
  /\ poll' = [poll EXCEPT ![t] = TRUE]
  /\ UNCHANGED <<handles, watchers, stopping, dir, process, runner, notes, read>>

PollRunning(t) ==
  /\ poll[t]
  /\ state[t] \in {"completed", "failed", "gone"}
  /\ poll' = [poll EXCEPT ![t] = FALSE]
  /\ tool' = IF state[t] = "gone" THEN tool ELSE Settled(t)
  /\ UNCHANGED <<handles, watchers, stopping, call, khandle, dir, process, runner, notes, read>>

\* spawn_bg_monitor: the poller settles the entry at a terminal state and
\* gives up on a task that left the map.
Poll(t) ==
  /\ poll[t]
  /\ state[t] \in Terminal \cup {"gone"}
  /\ poll' = [poll EXCEPT ![t] = FALSE]
  /\ tool' = IF state[t] = "gone" THEN tool ELSE Settled(t)
  /\ UNCHANGED <<handles, watchers, stopping, call, khandle, dir, process, runner, notes, read>>

-----------------------------------------------------------------------------
(* The runner. *)

\* run_shell_command: a spawn that fails goes through mark_task_failed, which
\* looks at no earlier state and notifies nobody.
RunShell(t) ==
  /\ runner[t] = "spawn"
  /\ \/ /\ runner' = [runner EXCEPT ![t] = "install"]
        /\ process' = [process EXCEPT ![t] = "alive"]
        /\ UNCHANGED state
     \/ /\ runner' = [runner EXCEPT ![t] = "done"]
        /\ state' = IF InMap(t) THEN [state EXCEPT ![t] = "failed"] ELSE state
        /\ UNCHANGED process
  /\ UNCHANGED <<tracking, watchers, stopping, notified, killtx, permit, dir, notes, read>>

\* run_background_child, backgroundize_process: the kill sender goes into the
\* handle, if the handle is still there.
Install(t) ==
  /\ runner[t] = "install"
  /\ runner' = [runner EXCEPT ![t] = "open"]
  /\ killtx' = IF InMap(t) THEN [killtx EXCEPT ![t] = "held"] ELSE killtx
  /\ UNCHANGED <<tracking, watchers, stopping, state, notified, permit, dir, process, notes, read>>

\* await_process opens the output file; without the directory it returns 1 and
\* leaves the process to itself.
Open(t) ==
  /\ runner[t] = "open"
  /\ runner' = [runner EXCEPT ![t] = IF dir[t] THEN "wait" ELSE "bad"]
  /\ UNCHANGED <<handles, tracking, watchers, stopping, dir, process, notes, read>>

AwaitKillOnly(t) ==
  /\ runner[t] = "wait"
  /\ \/ /\ process[t] = "exited"
        /\ \E code \in {"ok", "bad"} : runner' = [runner EXCEPT ![t] = code]
        /\ UNCHANGED process
     \/ /\ killtx[t] = "fired"
        /\ runner' = [runner EXCEPT ![t] = "bad"]
        /\ process' = [process EXCEPT ![t] = "dead"]
  /\ UNCHANGED <<handles, tracking, watchers, stopping, dir, notes, read>>

\* The select! of await_process; a dropped kill sender resolves kill_rx too.
\* The code is settled once the output streams have closed.
Await(t) ==
  /\ runner[t] = "wait"
  /\ \/ /\ process[t] = "exited"
        /\ \E code \in {"ok", "bad"} : runner' = [runner EXCEPT ![t] = code]
        /\ UNCHANGED process
     \/ /\ killtx[t] = "fired" \/ permit[t]
        /\ runner' = [runner EXCEPT ![t] = "bad"]
        /\ process' = [process EXCEPT ![t] = "dead"]
  /\ UNCHANGED <<handles, tracking, watchers, stopping, dir, notes, read>>

Push(t, p) == notes' = notes \cup {<<t, p>>}

FinalizeKilled(t) ==
  /\ runner[t] \in {"ok", "bad"}
  /\ runner' = [runner EXCEPT ![t] = "done"]
  /\ IF InMap(t)
     THEN /\ state' = [state EXCEPT ![t] = IF runner[t] = "ok" THEN "completed" ELSE "failed"]
          /\ notified' = [notified EXCEPT ![t] = TRUE]
          /\ IF notified[t] THEN UNCHANGED notes ELSE Push(t, "later")
     ELSE UNCHANGED <<state, notified, notes>>
  /\ UNCHANGED <<tracking, watchers, stopping, killtx, permit, dir, process, read>>

\* finalize_state: an explicit kill stands, and a task notifies once.
Finalize(t) ==
  /\ runner[t] \in {"ok", "bad"}
  /\ runner' = [runner EXCEPT ![t] = "done"]
  /\ IF InMap(t) /\ state[t] # "killed"
     THEN /\ state' = [state EXCEPT ![t] = IF runner[t] = "ok" THEN "completed" ELSE "failed"]
          /\ notified' = [notified EXCEPT ![t] = TRUE]
          /\ IF notified[t] THEN UNCHANGED notes ELSE Push(t, "later")
     ELSE UNCHANGED <<state, notified, notes>>
  /\ UNCHANGED <<tracking, watchers, stopping, killtx, permit, dir, process, read>>

\* The process ends by itself (environment).
ProcessExits(t) ==
  /\ process[t] = "alive"
  /\ process' = [process EXCEPT ![t] = "exited"]
  /\ UNCHANGED <<handles, tracking, watchers, stopping, dir, runner, notes, read>>

-----------------------------------------------------------------------------
(* The two monitors. *)

\* Taking the sender out of the handle and sending on it.
Fired(t) == [killtx EXCEPT ![t] = IF @ = "held" THEN "fired" ELSE @]

\* spawn_max_execution_monitor, first lock: a running task is Killed, its
\* runner notified and its kill sender used.
Limit(t) ==
  /\ limit[t] = "sleep"
  /\ IF state[t] = "running"
     THEN /\ state' = [state EXCEPT ![t] = "killed"]
          /\ permit' = [permit EXCEPT ![t] = TRUE]
          /\ killtx' = Fired(t)
          /\ limit' = [limit EXCEPT ![t] = IF notified[t] THEN "done" ELSE "notify"]
     ELSE /\ limit' = [limit EXCEPT ![t] = "done"]
          /\ UNCHANGED <<state, permit, killtx>>
  /\ UNCHANGED <<tracking, stopping, notified, stuck, dir, process, runner, notes, read>>

LimitNotifiesInMap(t) ==
  /\ limit[t] = "notify"
  /\ limit' = [limit EXCEPT ![t] = "done"]
  /\ notified' = IF InMap(t) THEN [notified EXCEPT ![t] = TRUE] ELSE notified
  /\ IF InMap(t) THEN Push(t, "now") ELSE UNCHANGED notes
  /\ UNCHANGED <<tracking, stopping, state, killtx, permit, stuck, dir, process, runner, read>>

\* Second lock: the flag of a handle still there, then the notification.
LimitNotifies(t) ==
  /\ limit[t] = "notify"
  /\ limit' = [limit EXCEPT ![t] = "done"]
  /\ notified' = IF InMap(t) THEN [notified EXCEPT ![t] = TRUE] ELSE notified
  /\ Push(t, "now")
  /\ UNCHANGED <<tracking, stopping, state, killtx, permit, stuck, dir, process, runner, read>>

\* monitor_loop: the detector ends once the task does not run, and goes on to
\* the alert when the output has stopped at a prompt.
Watch(t) ==
  /\ stuck[t] = "watch"
  /\ stuck' = [stuck EXCEPT ![t] = IF state[t] = "running" THEN "alert" ELSE "done"]
  /\ state[t] = "running" => runner[t] = "wait"
  /\ UNCHANGED <<handles, tracking, stopping, limit, dir, process, runner, notes, read>>

\* emit_stuck_alert asks for the flag only.
Alert(t) ==
  /\ stuck[t] = "alert"
  /\ stuck' = [stuck EXCEPT ![t] = "done"]
  /\ IF InMap(t) /\ ~notified[t]
     THEN notified' = [notified EXCEPT ![t] = TRUE] /\ Push(t, "next")
     ELSE UNCHANGED <<notified, notes>>
  /\ UNCHANGED <<tracking, stopping, state, killtx, permit, limit, dir, process, runner, read>>

-----------------------------------------------------------------------------
(* Stop, purge and the end of a turn. *)

\* ToolExecState::RunningForeground or RunningBackground.
Running(t) == tool[t] \in {"foreground", "background"}

\* kill_tool_handles: running entries become Terminated, the handles are
\* snapshotted.  A BashKillHandle does nothing here: the child left its slot
\* when handle_foreground_result began to wait.
StopForceful(s) ==
  /\ stop[s] = "no"
  /\ stop' = [stop EXCEPT ![s] = "kill"]
  /\ doomed' = [doomed EXCEPT ![s] = {t \in Tasks : Owner[t] = s /\ khandle[t] = "task"}]
  /\ tool' = [t \in Tasks |-> IF Owner[t] = s /\ Running(t) THEN "terminated" ELSE tool[t]]
  /\ UNCHANGED <<handles, watchers, call, khandle, poll, dir, process, runner, notes, read>>

KillTells(s, t) ==
  /\ stop[s] = "kill"
  /\ t \in doomed[s]
  /\ doomed' = [doomed EXCEPT ![s] = @ \ {t}]
  /\ IF state[t] = "running"
     THEN /\ state' = [state EXCEPT ![t] = "killed"]
          /\ killtx' = Fired(t)
          /\ notified' = [notified EXCEPT ![t] = TRUE]
          /\ IF notified[t] THEN UNCHANGED notes ELSE Push(t, "later")
     ELSE UNCHANGED <<state, killtx, notified, notes>>
  /\ UNCHANGED <<tracking, watchers, permit, stop, dir, process, runner, read>>

\* BackgroundTaskManager::kill through the snapshot's BackgroundKillHandles.
Kill(s, t) ==
  /\ stop[s] = "kill"
  /\ t \in doomed[s]
  /\ doomed' = [doomed EXCEPT ![s] = @ \ {t}]
  /\ IF state[t] = "running"
     THEN /\ state' = [state EXCEPT ![t] = "killed"]
          /\ killtx' = Fired(t)
     ELSE UNCHANGED <<state, killtx>>
  /\ UNCHANGED <<tracking, watchers, notified, permit, stop, dir, process, runner, notes, read>>

\* clear_exec_state: tool_states and tool_handles of the session are dropped.
ClearExecState(s) ==
  /\ tool' = [t \in Tasks |-> IF Owner[t] = s THEN "none" ELSE tool[t]]
  /\ khandle' = [t \in Tasks |-> IF Owner[t] = s THEN "none" ELSE khandle[t]]
  /\ stop' = [stop EXCEPT ![s] = "done"]
  /\ UNCHANGED <<handles, watchers, doomed, call, poll, dir, process, runner, notes, read>>

\* The forceful stop's last step, and the graceful stop, which waits until no
\* tool of the session is running and kills nothing.
StopClears(s) ==
  /\ \/ stop[s] = "kill" /\ doomed[s] = {}
     \/ /\ stop[s] = "no"
        /\ \A t \in Tasks : Owner[t] = s => ~Running(t)
  /\ ClearExecState(s)

\* cleanup_all_finished, when the sweeper purges the session: directories and
\* handles of its finished tasks go, and with a handle its kill sender.
Cleanup(s) ==
  LET finished == {t \in Tasks : Owner[t] = s /\ state[t] \in Terminal}
  IN /\ finished # {}
     /\ state' = [t \in Tasks |-> IF t \in finished THEN "gone" ELSE state[t]]
     /\ killtx' = [t \in Tasks |-> IF t \in finished THEN Fired(t)[t] ELSE killtx[t]]
     /\ dir' = [t \in Tasks |-> dir[t] /\ t \notin finished]
     /\ UNCHANGED <<tracking, watchers, stopping, notified, permit, process, runner, notes, read>>

\* drain_announces_rest at the end of a turn of s takes every notification of
\* the manager, whichever session the task belongs to.
Drain(s) ==
  /\ notes # {}
  /\ read' = read \cup {<<n[1], n[2], s>> : n \in notes}
  /\ notes' = {}
  /\ UNCHANGED <<handles, tracking, watchers, stopping, dir, process, runner>>

-----------------------------------------------------------------------------
Runner(t) == RunShell(t) \/ Install(t) \/ Open(t) \/ Await(t)
LimitMonitor(t) == Limit(t) \/ LimitNotifies(t)

Next ==
  \/ \E t \in Tasks :
       \/ Begin(t) \/ EndsEarly(t) \/ Spawn(t) \/ Register(t) \/ Poll(t)
       \/ Runner(t) \/ Finalize(t) \/ ProcessExits(t)
       \/ LimitMonitor(t) \/ Watch(t) \/ Alert(t)
  \/ \E s \in Sessions :
       \/ StopForceful(s) \/ StopClears(s) \/ Cleanup(s) \/ Drain(s)
       \/ \E t \in Tasks : Kill(s, t)

Spec == Init /\ [][Next]_vars

(***************************************************************************)
(* The runtime runs every spawned future that can go on, and a sleep ends. *)
(* Nothing is assumed of the process, of Finalize (the output streams may  *)
(* be held open by a grandchild), of the turns or of the sweeper.          *)
(***************************************************************************)
FairSpec ==
  /\ Spec
  /\ \A t \in Tasks : WF_vars(Register(t) \/ Poll(t)) /\ WF_vars(Runner(t))
                      /\ WF_vars(LimitMonitor(t))
-----------------------------------------------------------------------------
(* Properties. *)

\* Types, and that the runner waits only for a process it started or took over
\* and whose kill sender it created before.
TypeOK ==
  /\ call \in [Tasks -> {"idle", "cold", "front", "spawned", "adopted", "over"}]
  /\ tool \in [Tasks -> {"none", "pending", "foreground", "background", "terminated"}]
  /\ khandle \in [Tasks -> {"none", "bash", "task"}]
  /\ state \in [Tasks -> Terminal \cup {"none", "running", "gone"}]
  /\ notified \in [Tasks -> BOOLEAN]
  /\ killtx \in [Tasks -> {"none", "held", "fired"}]
  /\ permit \in [Tasks -> BOOLEAN]
  /\ dir \in [Tasks -> BOOLEAN]
  /\ process \in [Tasks -> {"none", "alive", "exited", "dead"}]
  /\ runner \in [Tasks -> {"none", "spawn", "install", "open", "wait", "ok", "bad", "done"}]
  /\ limit \in [Tasks -> {"none", "sleep", "notify", "done"}]
  /\ stuck \in [Tasks -> {"none", "watch", "alert", "done"}]
  /\ poll \in [Tasks -> BOOLEAN]
  /\ notes \subseteq Tasks \X {"now", "next", "later"}
  /\ read \subseteq Tasks \X {"now", "next", "later"} \X Sessions
  /\ stop \in [Sessions -> {"no", "kill", "done"}]
  /\ doomed \in [Sessions -> SUBSET Tasks]
  /\ \A t \in Tasks : runner[t] = "wait" => process[t] # "none" /\ killtx[t] # "none"

\* A task's end is reported at most once: the completion that finalize_state
\* pushes and the notice of the time limit exclude each other, although the
\* monitor takes the map's lock twice and the runner finalizes in between.
EndReportedOnce == \A t \in Tasks : ~({"now", "later"} \subseteq Sent(t))

\* A task that a session stop killed is not reported: no notification of its
\* end is in the list or was read, unless the time limit had killed it first
\* (only the limit gives the runner its permit).
KilledByStopIsQuiet ==
  \A t \in Tasks :
    state[t] = "killed" /\ ~permit[t] => Sent(t) \subseteq {"next"}

\* When the time limit strikes, the process dies even if the runner had not yet
\* installed its kill sender (the Notify keeps its permit).  Only a purge that
\* removes the directory before the runner opened its output can leave it.
LimitKillsProcess ==
  \A t \in Tasks : permit[t] ~> process[t] # "alive" \/ ~dir[t]

\* A task the time limit killed is reported, if not by the limit then by the
\* alert that came before, even when the purge removes its handle in between.
LimitIsReported == \A t \in Tasks : permit[t] ~> Sent(t) # {}

\* The session's record of a background call ends: the poller settles it, a
\* stop clears it, or the task was purged with its session.  A graceful stop
\* waits for exactly this.
TrackingEnds ==
  \A t \in Tasks : tool[t] = "background" ~> tool[t] # "background" \/ state[t] = "gone"

\* When a forceful stop has called every kill handle it found, no background
\* task whose call it had marked Terminated is still running.
StopEndsTasks ==
  \A t \in Tasks :
    /\ stop[Owner[t]] = "kill" /\ doomed[Owner[t]] = {}
    /\ call[t] = "over" /\ tool[t] = "terminated"
    => state[t] # "running"
=============================================================================
