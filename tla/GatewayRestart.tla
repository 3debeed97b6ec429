---------------------------- MODULE GatewayRestart ----------------------------
(***************************************************************************)
(* Configuration reload and the gateway restart it triggers: the reload    *)
(* thread that debounces, validates and stages restart-class files, the    *)
(* daemon's main loop with its restart state machine, the watchdog tasks   *)
(* that look for a window in which no session is active, and the rebuild.  *)
(*                                                                         *)
(* The content of a file is its version, counted from 1; version 0 is what *)
(* the daemon started with.  The summaries carried by requests and tokens  *)
(* are only logged and are left out.                                       *)
(***************************************************************************)
EXTENDS Integers, Sequences

CONSTANTS
  Sections,     \* restart-class configuration files
  NoSection,    \* the reload thread is between two files
  Gateway,      \* gateway.json, which the rebuild reads
  Credentials,  \* those of Sections that dispatch_credentials_change handles
  Accounts,     \* accounts.json, in effect at once if its bindings are kept
  Sessions,     \* sessions of the SessionManager
  RestartCap,   \* capacity of the restart_rx channel
  AdminCap,     \* capacity of the admin_restart_rx channel
  MaxEdits,     \* bound on edits of files
  MaxCommands   \* bound on admin commands

ASSUME ConstantsAssumption ==
  /\ NoSection \notin Sections /\ Gateway \in Sections
  /\ Credentials \subseteq Sections \ {Gateway}
  /\ Accounts \subseteq Sections \ ({Gateway} \cup Credentials)
  /\ RestartCap \in Nat \ {0} /\ AdminCap \in Nat \ {0}
  /\ MaxEdits \in Nat /\ MaxCommands \in Nat

VARIABLES
  disk,      \* the version of each file
  bad,       \* file versions that fail validation
  rebound,   \* file versions whose bindings differ from those of version 0
  edits,     \* edits so far
  paths,     \* pending_paths: events collected in the debounce window
  batch,     \* files of the batch still to be dispatched
  current,   \* the file reloaded whose restart signal is still to be sent
  staged,    \* ConfigManager.pending_restart: the version, 0 for none
  cache,     \* the runtime configuration
  restartRx, \* signals in the restart_rx channel
  adminRx,   \* commands in the admin_restart_rx channel
  commands,  \* admin commands so far
  rstate,    \* RestartState
  loop,      \* where the main loop is
  built,     \* the version of gateway.json the present gateway was built from
  drained,   \* values apply_pending_restart has still to write, 0 for none
  ready,     \* a token is in the ready channel, whose capacity is 1
  forcing,   \* tasks of signal_watchdog_ready that wait to send a token
  dogs,      \* the watchdog tasks, in the order they were spawned
  active,    \* sessions with an active dimension
  given      \* history: a signal was dropped, or a restart cancelled, since
             \* the last restart

reloadVars == <<disk, bad, rebound, edits, paths, batch, current>>
configVars == <<staged, cache>>
chanVars == <<restartRx, adminRx, commands>>
loopVars == <<rstate, loop, built, drained>>
dogVars == <<ready, forcing, dogs>>
vars == <<reloadVars, configVars, chanVars, loopVars, dogVars, active, given>>

RestartState == {"Idle", "Pending", "Executing"}
\* unseen: the watch channel holds a value this receiver has not seen.
\* left: the sessions the idle check has still to look at.
Dog == [pc : {"changed", "read", "check", "sleep"},
        unseen : BOOLEAN, left : SUBSET Sessions]

Init ==
  /\ disk = [s \in Sections |-> 0] /\ bad = {} /\ rebound = {} /\ edits = 0
  /\ paths = {} /\ batch = {} /\ current = NoSection
  /\ staged = [s \in Sections |-> 0] /\ cache = [s \in Sections |-> 0]
  /\ restartRx = 0 /\ adminRx = <<>> /\ commands = 0
  /\ rstate = "Idle" /\ loop = "select" /\ built = 0
  /\ drained = [s \in Sections |-> 0]
  /\ ready = FALSE /\ forcing = 0 /\ dogs = <<>>
  /\ active \in SUBSET Sessions
  /\ given = FALSE

-----------------------------------------------------------------------------
(* The reload thread.                                                      *)

\* Somebody edits a file; the watcher reports its path.
EditFile(s) ==
  /\ edits < MaxEdits
  /\ edits' = edits + 1
  /\ disk' = [disk EXCEPT ![s] = edits + 1]
  /\ bad' \in {bad, bad \cup {<<s, edits + 1>>}}
  /\ rebound' \in {rebound} \cup
       {rebound \cup {<<s, edits + 1>>} : a \in Accounts \cap {s}}
  /\ paths' = paths \cup {s}
  /\ UNCHANGED <<batch, current, configVars, chanVars, loopVars, dogVars,
                 active, given>>

\* The debounce window closes.
DispatchBatch ==
  /\ batch = {} /\ current = NoSection /\ paths # {}
  /\ batch' = paths
  /\ paths' = {}
  /\ UNCHANGED <<disk, bad, rebound, edits, current, configVars, chanVars,
                 loopVars, dogVars, active, given>>

\* bindings_differ
BindingsDiffer(s, old, new) ==
  (<<s, old>> \in rebound) # (<<s, new>> \in rebound)

\* (mutant) A file that fails validation resets its section to the default.
ReloadSectionResets(s) ==
  /\ current = NoSection /\ s \in batch
  /\ batch' = batch \ {s}
  /\ \/ /\ <<s, disk[s]>> \in bad
        /\ cache' = [cache EXCEPT ![s] = 0]
        /\ UNCHANGED staged
     \/ /\ <<s, disk[s]>> \notin bad
        /\ staged' = [staged EXCEPT ![s] = disk[s]]
        /\ UNCHANGED cache
  /\ current' = IF s \in Credentials THEN NoSection ELSE s
  /\ UNCHANGED <<disk, bad, rebound, edits, paths, chanVars, loopVars, dogVars,
                 active, given>>

\* reload_section or reload_credentials: read, validate, and stage the value
\* for the next restart.  Accounts whose bindings are those of the runtime
\* value go straight to the runtime.  Credentials end here; for a section file
\* on_config_file_changed follows, whether the reload succeeded or not.
ReloadSection(s) ==
  /\ current = NoSection /\ s \in batch
  /\ batch' = batch \ {s}
  /\ \/ /\ <<s, disk[s]>> \in bad
        /\ UNCHANGED <<staged, cache>>
     \/ /\ <<s, disk[s]>> \notin bad
        /\ s \in Accounts /\ ~BindingsDiffer(s, cache[s], disk[s])
        /\ cache' = [cache EXCEPT ![s] = disk[s]]
        /\ UNCHANGED staged
     \/ /\ <<s, disk[s]>> \notin bad
        /\ s \in Accounts => BindingsDiffer(s, cache[s], disk[s])
        /\ staged' = [staged EXCEPT ![s] = disk[s]]
        /\ UNCHANGED cache
  /\ current' = IF s \in Credentials THEN NoSection ELSE s
  /\ UNCHANGED <<disk, bad, rebound, edits, paths, chanVars, loopVars, dogVars,
                 active, given>>

\* on_config_file_changed: try_send; a full channel drops the signal.
OnConfigFileChanged ==
  /\ current # NoSection
  /\ current' = NoSection
  /\ restartRx' = IF restartRx < RestartCap THEN restartRx + 1 ELSE restartRx
  /\ given' = (given \/ restartRx >= RestartCap)
  /\ UNCHANGED <<disk, bad, rebound, edits, paths, batch, configVars, adminRx,
                 commands, loopVars, dogVars, active>>

-----------------------------------------------------------------------------
(* The main loop's select and the restart state machine.                   *)

\* tx.send: every receiver has something new to see.
Wake(ds) == [i \in DOMAIN ds |-> [ds[i] EXCEPT !.unseen = TRUE]]

\* spawn_restart_watchdog: subscribe marks the present value as seen.
NewDog == [pc |-> "changed", unseen |-> FALSE, left |-> {}]

\* request_gateway_restart; the watchdog is spawned after the send.
RecvRestart ==
  /\ loop = "select" /\ restartRx > 0
  /\ restartRx' = restartRx - 1
  /\ rstate' = "Pending"
  /\ dogs' = IF rstate = "Idle" THEN Append(Wake(dogs), NewDog) ELSE Wake(dogs)
  /\ UNCHANGED <<reloadVars, configVars, adminRx, commands, loop, built,
                 drained, ready, forcing, active, given>>

\* The operator asks for a forced restart (TRUE) or cancels one (FALSE).
SendCommand(force) ==
  /\ commands < MaxCommands /\ Len(adminRx) < AdminCap
  /\ commands' = commands + 1
  /\ adminRx' = Append(adminRx, force)
  /\ UNCHANGED <<reloadVars, configVars, restartRx, loopVars, dogVars, active,
                 given>>

\* The select is biased: this branch runs when restart_rx is empty.
AdminTurn == loop = "select" /\ restartRx = 0 /\ adminRx # <<>>

\* force_gateway_restart; with a restart pending, signal_watchdog_ready spawns
\* a task that sends a token.
RecvForce ==
  /\ AdminTurn /\ Head(adminRx)
  /\ adminRx' = Tail(adminRx)
  /\ rstate' = "Pending"
  /\ \/ /\ rstate = "Pending"
        /\ dogs' = Wake(dogs) /\ forcing' = forcing + 1
     \/ /\ rstate = "Idle"
        /\ dogs' = Append(Wake(dogs), NewDog) /\ UNCHANGED forcing
  /\ UNCHANGED <<reloadVars, configVars, restartRx, commands, loop, built,
                 drained, ready, active, given>>

\* cancel_pending_restart
RecvCancel ==
  /\ AdminTurn /\ ~Head(adminRx)
  /\ adminRx' = Tail(adminRx)
  /\ \/ /\ rstate = "Pending"
        /\ rstate' = "Idle" /\ dogs' = Wake(dogs) /\ given' = TRUE
     \/ /\ rstate = "Idle"
        /\ UNCHANGED <<rstate, dogs, given>>
  /\ UNCHANGED <<reloadVars, configVars, restartRx, commands, loop, built,
                 drained, ready, forcing, active>>

\* The ready branch, the last of the select: execute_gateway_restart returns
\* at once unless a restart is pending; otherwise the loop awaits the rebuild.
RecvReady ==
  /\ loop = "select" /\ restartRx = 0 /\ adminRx = <<>> /\ ready
  /\ ready' = FALSE
  /\ \/ /\ rstate = "Pending"
        /\ rstate' = "Executing" /\ loop' = "rebuild" /\ dogs' = Wake(dogs)
     \/ /\ rstate = "Idle"
        /\ UNCHANGED <<rstate, loop, dogs>>
  /\ UNCHANGED <<reloadVars, configVars, chanVars, built, drained, forcing,
                 active, given>>

-----------------------------------------------------------------------------
(* The rebuild, awaited by the main loop.                                  *)

\* (mutant) The gateway is built from the runtime configuration.
BuildFromRuntime ==
  /\ loop = "rebuild"
  /\ loop' = "built"
  /\ built' = cache[Gateway]
  /\ UNCHANGED <<reloadVars, configVars, chanVars, rstate, drained, dogVars,
                 active, given>>

\* shutdown_old_gateway, build_new_gateway, install_handlers: gateway.json is
\* read from the disk, whatever is staged.
BuildNewGateway ==
  /\ loop = "rebuild"
  /\ loop' = "built"
  /\ built' = disk[Gateway]
  /\ UNCHANGED <<reloadVars, configVars, chanVars, rstate, drained, dogVars,
                 active, given>>

\* swap_and_notify, and the replay of the stash, which touches none of this.
SwapAndNotify ==
  /\ loop = "built"
  /\ loop' = "swapped"
  /\ rstate' = "Idle"
  /\ dogs' = Wake(dogs)
  /\ UNCHANGED <<reloadVars, configVars, chanVars, built, drained, ready,
                 forcing, active, given>>

\* apply_pending_restart takes all that is staged ...
DrainPending ==
  /\ loop = "swapped"
  /\ loop' = "apply"
  /\ drained' = staged
  /\ staged' = [s \in Sections |-> 0]
  /\ given' = FALSE
  /\ UNCHANGED <<reloadVars, cache, chanVars, rstate, built, dogVars, active>>

\* ... and moves each value into the runtime cache.
UpdateSectionCache(s) ==
  /\ loop = "apply" /\ drained[s] # 0
  /\ cache' = [cache EXCEPT ![s] = drained[s]]
  /\ drained' = [drained EXCEPT ![s] = 0]
  /\ UNCHANGED <<reloadVars, staged, chanVars, rstate, loop, built, dogVars,
                 active, given>>

\* (mutant) Signals that arrived during the rebuild are discarded.
RestartDoneDiscards ==
  /\ loop = "apply" /\ \A s \in Sections : drained[s] = 0
  /\ loop' = "select"
  /\ restartRx' = 0
  /\ UNCHANGED <<reloadVars, configVars, adminRx, commands, rstate, built,
                 drained, dogVars, active, given>>

\* execute_gateway_restart returns to the select.
RestartDone ==
  /\ loop = "apply" /\ \A s \in Sections : drained[s] = 0
  /\ loop' = "select"
  /\ UNCHANGED <<reloadVars, configVars, chanVars, rstate, built, drained,
                 dogVars, active, given>>

-----------------------------------------------------------------------------
(* Watchdogs and sessions.                                                 *)

\* changed() returns and marks the value as seen.
DogWakes(i) ==
  /\ dogs[i].pc = "changed" /\ dogs[i].unseen
  /\ dogs' = [dogs EXCEPT ![i] = [@ EXCEPT !.pc = "read", !.unseen = FALSE]]
  /\ UNCHANGED <<reloadVars, configVars, chanVars, loopVars, ready, forcing,
                 active, given>>

\* borrow(): a pending restart starts a check of every session.
DogReads(i) ==
  /\ dogs[i].pc = "read"
  /\ dogs' = IF rstate = "Pending"
             THEN [dogs EXCEPT ![i] = [@ EXCEPT !.pc = "check",
                                                !.left = Sessions]]
             ELSE [dogs EXCEPT ![i] = [@ EXCEPT !.pc = "changed"]]
  /\ UNCHANGED <<reloadVars, configVars, chanVars, loopVars, ready, forcing,
                 active, given>>

\* activity_dimensions of one session; the first active one ends the check.
DogChecks(i, s) ==
  /\ dogs[i].pc = "check" /\ s \in dogs[i].left
  /\ dogs' = IF s \in active
             THEN [dogs EXCEPT ![i] = [@ EXCEPT !.pc = "sleep", !.left = {}]]
             ELSE [dogs EXCEPT ![i] = [@ EXCEPT !.left = dogs[i].left \ {s}]]
  /\ UNCHANGED <<reloadVars, configVars, chanVars, loopVars, ready, forcing,
                 active, given>>

\* All were idle: send a token, waiting for room in the channel.
DogSends(i) ==
  /\ dogs[i].pc = "check" /\ dogs[i].left = {}
  /\ ~ready
  /\ ready' = TRUE
  /\ dogs' = [dogs EXCEPT ![i] = [@ EXCEPT !.pc = "changed"]]
  /\ UNCHANGED <<reloadVars, configVars, chanVars, loopVars, forcing, active,
                 given>>

\* (mutant) What changed during the sleep is marked as seen.
DogSleepsThrough(i) ==
  /\ dogs[i].pc = "sleep"
  /\ dogs' = [dogs EXCEPT ![i] = [@ EXCEPT !.pc = "changed", !.unseen = FALSE]]
  /\ UNCHANGED <<reloadVars, configVars, chanVars, loopVars, ready, forcing,
                 active, given>>

\* The poll interval is over; the loop goes back to changed().
DogSleeps(i) ==
  /\ dogs[i].pc = "sleep"
  /\ dogs' = [dogs EXCEPT ![i] = [@ EXCEPT !.pc = "changed"]]
  /\ UNCHANGED <<reloadVars, configVars, chanVars, loopVars, ready, forcing,
                 active, given>>

\* The task of signal_watchdog_ready.
ForceSends ==
  /\ forcing > 0 /\ ~ready
  /\ forcing' = forcing - 1
  /\ ready' = TRUE
  /\ UNCHANGED <<reloadVars, configVars, chanVars, loopVars, dogs, active,
                 given>>

\* A session takes up or finishes work.
ToggleSession(s) ==
  /\ active' = IF s \in active THEN active \ {s} ELSE active \cup {s}
  /\ UNCHANGED <<reloadVars, configVars, chanVars, loopVars, dogVars, given>>

DogStep(i) == \/ DogWakes(i) \/ DogReads(i) \/ DogSends(i) \/ DogSleeps(i)
              \/ \E s \in Sessions : DogChecks(i, s)

Reload ==
  DispatchBatch \/ OnConfigFileChanged \/ \E s \in Sections : ReloadSection(s)

MainLoop ==
  \/ RecvRestart \/ RecvForce \/ RecvCancel \/ RecvReady
  \/ BuildNewGateway \/ SwapAndNotify \/ DrainPending \/ RestartDone
  \/ \E s \in Sections : UpdateSectionCache(s)

Next ==
  \/ \E s \in Sections : EditFile(s)
  \/ \E force \in BOOLEAN : SendCommand(force)
  \/ \E s \in Sessions : ToggleSession(s)
  \/ Reload \/ MainLoop \/ ForceSends
  \/ \E i \in DOMAIN dogs : DogStep(i)

Spec == Init /\ [][Next]_vars

MaxDogs == MaxEdits + MaxCommands

\* The reload thread, the main loop and every spawned task are scheduled.
FairSpec ==
  /\ Spec
  /\ WF_vars(Reload) /\ WF_vars(MainLoop) /\ WF_vars(ForceSends)
  /\ \A i \in 1..MaxDogs : WF_vars(i \in DOMAIN dogs /\ DogStep(i))

-----------------------------------------------------------------------------
Version == 0..MaxEdits

\* Every variable has its type; the channels keep their capacities; the state
\* is Executing exactly while the main loop rebuilds.
TypeOK ==
  /\ disk \in [Sections -> Version] /\ edits \in Version
  /\ bad \subseteq Sections \X Version /\ rebound \subseteq Sections \X Version
  /\ paths \subseteq Sections /\ batch \subseteq Sections
  /\ current \in Sections \cup {NoSection}
  /\ staged \in [Sections -> Version] /\ cache \in [Sections -> Version]
  /\ restartRx \in 0..RestartCap
  /\ adminRx \in Seq(BOOLEAN) /\ Len(adminRx) <= AdminCap
  /\ commands \in 0..MaxCommands
  /\ rstate \in RestartState
  /\ loop \in {"select", "rebuild", "built", "swapped", "apply"}
  /\ rstate = "Executing" <=> loop \in {"rebuild", "built"}
  /\ built \in Version /\ drained \in [Sections -> Version]
  /\ ready \in BOOLEAN /\ forcing \in Nat
  /\ dogs \in Seq(Dog)
  /\ active \subseteq Sessions
  /\ given \in BOOLEAN

\* A restart is on its way: signalled, pending, or about to take what is staged.
Underway ==
  \/ restartRx > 0 \/ rstate # "Idle" \/ loop = "swapped"

\* A value that waits for a restart is never forgotten: as long as it is staged
\* its signal is about to be sent, or a restart is on its way, unless the
\* channel was full, the operator cancelled, or the file is a credential, whose
\* reload sends no signal.
StagedIsUnderway ==
  \A s \in Sections \ Credentials :
    staged[s] # 0 => current = s \/ Underway \/ given

\* What failed validation never reaches the runtime configuration, neither
\* directly nor through the staging area, in whatever order files are edited,
\* reloaded and restarts executed.
RuntimeIsValidated ==
  \A s \in Sections : <<s, cache[s]>> \notin bad

\* The runtime value of a file never goes back to an older version, except for
\* accounts (see AccountsNeverGoBack).
RuntimeNeverGoesBack ==
  [][\A s \in Sections \ Accounts : cache'[s] >= cache[s]]_cache

\* Edits that nobody has dispatched, staged or signalled, and restarts under
\* way, are all there is between the disk and the gateway.
Settled ==
  /\ paths = {} /\ batch = {} /\ current = NoSection
  /\ ~Underway /\ loop = "select" /\ ~given

\* Once everything has settled the gateway was built from the very version of
\* gateway.json that the runtime configuration holds, although the rebuild
\* reads the disk and the runtime takes the staged value, at different moments.
GatewayMatchesRuntime ==
  (Settled /\ <<Gateway, disk[Gateway]>> \notin bad) => built = cache[Gateway]

\* A watchdog that has yet to see the pending restart leads to its execution,
\* unless sessions become active or the restart is cancelled.
WokenWatchdogExecutes ==
  \A i \in 1..MaxDogs :
    (/\ rstate = "Pending" /\ active = {}
     /\ i \in DOMAIN dogs /\ dogs[i].unseen)
      ~> (rstate # "Pending" \/ active # {})

\* A pending restart is executed when no session is active (restart.md, the
\* idle window: with no active session it runs at once).
PendingExecutes ==
  (rstate = "Pending" /\ active = {}) ~> (rstate # "Pending" \/ active # {})

\* What a file has put in effect at once stays visible (hot-reload.md, files
\* whose fields belong to different classes).
AccountsNeverGoBack ==
  [][\A s \in Accounts : cache'[s] >= cache[s]]_cache
=============================================================================
