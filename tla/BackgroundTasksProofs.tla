------------------------ MODULE BackgroundTasksProofs ------------------------
(***************************************************************************)
(* Proofs about BackgroundTasks, for any set of tasks and of sessions.     *)
(***************************************************************************)
EXTENDS BackgroundTasks, TLAPS

Priorities == {"now", "next", "later"}

\* The runner has a process before it installs a kill sender, and it waits only
\* where it has found the directory, hence after a handle took the sender.
RunnerReady ==
  \A t \in Tasks :
    /\ call[t] = "front" => process[t] # "none"
    /\ call[t] \in {"idle", "cold", "front"} => state[t] = "none" /\ runner[t] = "none"
    /\ runner[t] # "none" => state[t] # "none"
    /\ state[t] = "gone" => ~dir[t]
    /\ runner[t] \in {"install", "open", "wait"} => process[t] # "none"
    /\ runner[t] = "open" /\ dir[t] => killtx[t] # "none"

TypeInv == TypeOK /\ RunnerReady

-----------------------------------------------------------------------------
(* Type correctness.                                                       *)

LEMMA SetFlag ==
  ASSUME NEW f \in [Tasks -> BOOLEAN], NEW t \in Tasks
  PROVE  [f EXCEPT ![t] = TRUE] \in [Tasks -> BOOLEAN]
  OBVIOUS

LEMMA TypeInit == Init => TypeInv
  BY DEF Init, TypeInv, TypeOK, RunnerReady, Terminal

\* Every step of a call, a runner, a monitor, a stop, the purge and a turn.
LEMMA TypeStep == TypeInv /\ [Next]_vars => TypeInv'
<1> SUFFICES ASSUME TypeInv, [Next]_vars
             PROVE  TypeInv'
  OBVIOUS
<1> USE DEF TypeInv, TypeOK, RunnerReady, Terminal, handles, tracking, watchers, stopping
<1>1. ASSUME NEW t \in Tasks, Begin(t) PROVE TypeInv'
  <2>1. CASE /\ call' = [call EXCEPT ![t] = "cold"]
             /\ tool' = [tool EXCEPT ![t] = "pending"]
             /\ UNCHANGED <<khandle, process>>
    BY <1>1, <2>1 DEF Begin
  <2>2. CASE /\ call' = [call EXCEPT ![t] = "front"]
             /\ tool' = [tool EXCEPT ![t] = "foreground"]
             /\ khandle' = [khandle EXCEPT ![t] = "bash"]
             /\ process' = [process EXCEPT ![t] = "alive"]
    BY <1>1, <2>2 DEF Begin
  <2> QED BY <1>1, <2>1, <2>2, Zenon DEF Begin
<1>2. ASSUME NEW t \in Tasks, EndsEarly(t) PROVE TypeInv'
  BY <1>2 DEF EndsEarly, Settled
<1>3. ASSUME NEW t \in Tasks, Spawn(t) PROVE TypeInv'
  BY <1>3 DEF Spawn
<1>4. ASSUME NEW t \in Tasks, Register(t) PROVE TypeInv'
  BY <1>4 DEF Register, Backgrounded
<1>5. ASSUME NEW t \in Tasks, Poll(t) PROVE TypeInv'
  BY <1>5, Zenon DEF Poll, Settled
<1>6. ASSUME NEW t \in Tasks, RunShell(t) PROVE TypeInv'
  <2>1. CASE runner' = [runner EXCEPT ![t] = "install"]
             /\ process' = [process EXCEPT ![t] = "alive"] /\ UNCHANGED state
    BY <1>6, <2>1 DEF RunShell
  <2>2. CASE /\ runner' = [runner EXCEPT ![t] = "done"] /\ UNCHANGED process
             /\ state' = IF InMap(t) THEN [state EXCEPT ![t] = "failed"] ELSE state
    BY <1>6, <2>2 DEF RunShell, InMap
  <2> QED BY <1>6, <2>1, <2>2, Zenon DEF RunShell
<1>7. ASSUME NEW t \in Tasks, Install(t) PROVE TypeInv'
  BY <1>7 DEF Install, InMap
<1>8. ASSUME NEW t \in Tasks, Open(t) PROVE TypeInv'
  BY <1>8 DEF Open
<1>9. ASSUME NEW t \in Tasks, Await(t) PROVE TypeInv'
  BY <1>9 DEF Await
<1>10. ASSUME NEW t \in Tasks, Finalize(t) PROVE TypeInv'
  <2>1. notes' \subseteq Tasks \X Priorities
    BY <1>10 DEF Finalize, Push, Priorities
  <2>2. CASE InMap(t) /\ state[t] # "killed"
    <3>1. notified' \in [Tasks -> BOOLEAN]
      <4>1. notified' = [notified EXCEPT ![t] = TRUE] /\ notified \in [Tasks -> BOOLEAN]
        BY <1>10, <2>2, Zenon DEF Finalize
      <4> QED BY <4>1, SetFlag, Zenon
    <3>2. state' \in [Tasks -> Terminal \cup {"none", "running", "gone"}]
      BY <1>10, <2>2 DEF Finalize
    <3>3. /\ runner' = [runner EXCEPT ![t] = "done"] /\ state[t] \notin {"none", "gone"}
          /\ \A u \in Tasks \ {t} : state'[u] = state[u]
          /\ state'[t] \in {"completed", "failed"}
          /\ UNCHANGED <<tracking, watchers, stopping, killtx, permit, dir, process, read>>
      BY <1>10, <2>2 DEF Finalize, InMap
    <3>4. TypeOK'
      BY <2>1, <3>1, <3>2, <3>3 DEF Priorities
    <3>5. RunnerReady'
      BY <3>2, <3>3
    <3> QED BY <3>4, <3>5, Zenon
  <2>3. CASE ~(InMap(t) /\ state[t] # "killed")
    BY <1>10, <2>3 DEF Finalize
  <2> QED BY <2>2, <2>3, Zenon
<1>11. ASSUME NEW t \in Tasks, ProcessExits(t) PROVE TypeInv'
  BY <1>11 DEF ProcessExits
<1>12. ASSUME NEW t \in Tasks, Limit(t) PROVE TypeInv'
  <2>1. CASE state[t] = "running"
    <3>1. /\ permit' \in [Tasks -> BOOLEAN]
          /\ limit' \in [Tasks -> {"none", "sleep", "notify", "done"}]
      <4>1. permit' = [permit EXCEPT ![t] = TRUE] /\ permit \in [Tasks -> BOOLEAN]
        BY <1>12, <2>1, Zenon DEF Limit
      <4>2. limit' = [limit EXCEPT ![t] = IF notified[t] THEN "done" ELSE "notify"]
        BY <1>12, <2>1, Zenon DEF Limit
      <4>3. limit' \in [Tasks -> {"none", "sleep", "notify", "done"}]
        BY <4>2, Zenon
      <4> QED BY <4>1, <4>3, SetFlag, Zenon
    <3>2. /\ killtx' \in [Tasks -> {"none", "held", "fired"}]
          /\ \A u \in Tasks : killtx[u] # "none" => killtx'[u] # "none"
      BY <1>12, <2>1 DEF Limit, Fired
    <3>3. /\ state' = [state EXCEPT ![t] = "killed"]
          /\ UNCHANGED <<tracking, stopping, notified, stuck, dir, process, runner, notes, read>>
      BY <1>12, <2>1, Zenon DEF Limit
    <3>4. TypeOK'
      BY <3>1, <3>2, <3>3, Zenon
    <3>5. RunnerReady'
      BY <2>1, <3>2, <3>3
    <3> QED BY <3>4, <3>5, Zenon
  <2>2. CASE state[t] # "running"
    BY <1>12, <2>2 DEF Limit
  <2> QED BY <2>1, <2>2, Zenon
<1>13. ASSUME NEW t \in Tasks, LimitNotifies(t) PROVE TypeInv'
  BY <1>13 DEF LimitNotifies, Push
<1>14. ASSUME NEW t \in Tasks, Watch(t) PROVE TypeInv'
  BY <1>14, Zenon DEF Watch
<1>15. ASSUME NEW t \in Tasks, Alert(t) PROVE TypeInv'
  <2>1. notes' \subseteq Tasks \X Priorities
    BY <1>15 DEF Alert, Push, Priorities
  <2>2. notified' \in [Tasks -> BOOLEAN]
    <3>1. notified' = notified \/ notified' = [notified EXCEPT ![t] = TRUE]
      BY <1>15, Zenon DEF Alert
    <3>2. notified \in [Tasks -> BOOLEAN]
      OBVIOUS
    <3>3. [notified EXCEPT ![t] = TRUE] \in [Tasks -> BOOLEAN]
      BY <3>2, SetFlag, Zenon
    <3> QED BY <3>1, <3>2, <3>3, Zenon
  <2> QED BY <1>15, <2>1, <2>2, Zenon DEF Alert, Priorities
<1>16. ASSUME NEW s \in Sessions, StopForceful(s) PROVE TypeInv'
  BY <1>16 DEF StopForceful
<1>17. ASSUME NEW s \in Sessions, StopClears(s) PROVE TypeInv'
  BY <1>17 DEF StopClears, ClearExecState
<1>18. ASSUME NEW s \in Sessions, Cleanup(s) PROVE TypeInv'
  <2>1. /\ \A t \in Tasks : state'[t] = state[t] \/ (state'[t] = "gone" /\ ~dir'[t])
        /\ \A t \in Tasks : state[t] = "none" => state'[t] = "none"
        /\ \A t \in Tasks : dir'[t] => dir[t]
        /\ state' \in [Tasks -> Terminal \cup {"none", "running", "gone"}]
        /\ dir' \in [Tasks -> BOOLEAN]
    BY <1>18, Zenon DEF Cleanup
  <2>2. /\ killtx' \in [Tasks -> {"none", "held", "fired"}]
        /\ \A t \in Tasks : killtx[t] # "none" => killtx'[t] # "none"
    <3>1. killtx' = [t \in Tasks |->
                       IF Owner[t] = s /\ state[t] \in Terminal THEN Fired(t)[t] ELSE killtx[t]]
      BY <1>18, Zenon DEF Cleanup
    <3>2. \A t \in Tasks : Fired(t)[t] \in {killtx[t], "fired"}
      BY DEF Fired
    <3> QED BY <3>1, <3>2
  <2>3. TypeOK'
    BY <1>18, <2>1, <2>2, Zenon DEF Cleanup
  <2>4. RunnerReady'
    BY <1>18, <2>1, <2>2, Zenon DEF Cleanup
  <2> QED BY <2>3, <2>4, Zenon
<1>19. ASSUME NEW s \in Sessions, Drain(s) PROVE TypeInv'
  BY <1>19 DEF Drain
<1>20. ASSUME NEW s \in Sessions, NEW t \in Tasks, Kill(s, t) PROVE TypeInv'
  BY <1>20 DEF Kill, Fired
<1>21. CASE UNCHANGED vars
  BY <1>21, Zenon DEF vars
<1> HIDE DEF TypeInv
<1> QED
  BY <1>1, <1>2, <1>3, <1>4, <1>5, <1>6, <1>7, <1>8, <1>9, <1>10, <1>11, <1>12,
     <1>13, <1>14, <1>15, <1>16, <1>17, <1>18, <1>19, <1>20, <1>21, Zenon
  DEF Next, Runner, LimitMonitor

\* The variables keep their types, and the runner waits only for a process it
\* started or took over and whose kill sender a handle holds or has used.
THEOREM TypeCorrect == Spec => []TypeOK
<1>1. TypeInv => TypeOK
  BY Zenon DEF TypeInv
<1> QED
  BY TypeInit, TypeStep, <1>1, PTL DEF Spec

-----------------------------------------------------------------------------
(* The reports of a task's end.                                            *)

LEMMA SentPush ==
  ASSUME NEW t \in Tasks, NEW p \in Priorities, Push(t, p), UNCHANGED read
  PROVE  \A u \in Tasks : Sent(u)' = Sent(u) \cup (IF u = t THEN {p} ELSE {})
  BY Zenon DEF Push, Sent, Priorities

LEMMA SentSame ==
  ASSUME UNCHANGED <<notes, read>>
  PROVE  \A u \in Tasks : Sent(u)' = Sent(u)
  BY Zenon DEF Sent

LEMMA SentDrain ==
  ASSUME NEW s \in Sessions, Drain(s), TypeInv
  PROVE  \A u \in Tasks : Sent(u)' = Sent(u)
<1>1. /\ read' = read \cup {<<n[1], n[2], s>> : n \in notes} /\ notes' = {}
      /\ notes \subseteq Tasks \X Priorities
  BY Zenon DEF Drain, TypeInv, TypeOK, Priorities
<1>2. ASSUME NEW u \in Tasks, NEW p \in Priorities, NEW r \in Sessions
      PROVE  <<u, p, r>> \in read' <=> <<u, p, r>> \in read \/ (r = s /\ <<u, p>> \in notes)
  <2>1. \A n \in notes : n = <<n[1], n[2]>>
    BY <1>1
  <2>2. <<u, p, s>> \in {<<n[1], n[2], s>> : n \in notes} <=> <<u, p>> \in notes
    BY <1>1, <2>1, Zenon
  <2> QED BY <1>1, <2>2, Zenon
<1> QED BY <1>1, <1>2, Zenon DEF Sent, Priorities

Early == {"idle", "cold", "front"}

\* Only the limit gives the permit, and only it reports with "now".  A completion
\* is reported where the runner has ended and the state is final.  The permit
\* keeps the runner from reporting: the state is Killed, or the handle gone, or
\* the runner is over.
Reports ==
  \A t \in Tasks :
    /\ call[t] \in Early => ~permit[t]
    /\ "later" \in Sent(t) => state[t] \in {"completed", "failed", "gone"}
    /\ "now" \in Sent(t) \/ limit[t] = "notify" => permit[t]
    /\ permit[t] => /\ "later" \notin Sent(t)
                    /\ state[t] # "running"
                    /\ state[t] \in {"killed", "gone"} \/ runner[t] = "done"

ReportInv == TypeInv /\ Reports

\* The steps that leave the permits and the states alone.
LEMMA ReportsFrame ==
  ASSUME ReportInv, UNCHANGED <<permit, state>>,
         \A u \in Tasks :
           /\ Sent(u)' \cap {"now", "later"} = Sent(u) \cap {"now", "later"}
           /\ call'[u] \in Early => call[u] \in Early
           /\ limit'[u] = "notify" => limit[u] = "notify"
           /\ runner[u] = "done" => runner'[u] = "done"
  PROVE  Reports'
  BY Zenon DEF ReportInv, Reports

LEMMA ReportsStep == ReportInv /\ [Next]_vars => ReportInv'
<1> SUFFICES ASSUME ReportInv, [Next]_vars
             PROVE  Reports'
  BY TypeStep, Zenon DEF ReportInv
<1>t. TypeOK /\ RunnerReady /\ Reports
  BY Zenon DEF ReportInv, TypeInv
<1> USE DEF handles, tracking, watchers, stopping
<1>1. ASSUME NEW t \in Tasks,
             Begin(t) \/ EndsEarly(t) \/ Register(t) \/ Poll(t) \/ Install(t)
               \/ Open(t) \/ Await(t) \/ ProcessExits(t) \/ Watch(t)
      PROVE  Reports'
  <2>1. UNCHANGED <<permit, state, limit, notes, read>>
    BY <1>1, Zenon DEF Begin, EndsEarly, Register, Poll, Install, Open, Await, ProcessExits, Watch
  <2>2. \A u \in Tasks : call'[u] \in Early => call[u] \in Early
    <3>1. \/ call' = call
          \/ call[t] \in Early /\ \E c : call' = [call EXCEPT ![t] = c]
          \/ call' = [call EXCEPT ![t] = "over"]
      BY <1>1, Zenon DEF Begin, EndsEarly, Register, Poll, Install, Open, Await,
                  ProcessExits, Watch, Early
    <3> QED BY <1>t, <3>1 DEF TypeOK, Early
  <2>3. \A u \in Tasks : runner[u] = "done" => runner'[u] = "done"
    <3>1. \/ runner' = runner
          \/ runner[t] # "done" /\ \E pc : runner' = [runner EXCEPT ![t] = pc]
      BY <1>1, Zenon DEF Begin, EndsEarly, Register, Poll, Install, Open, Await,
                  ProcessExits, Watch
    <3> QED BY <1>t, <3>1 DEF TypeOK
  <2> QED BY <2>1, <2>2, <2>3, SentSame, ReportsFrame, Zenon
<1>2. ASSUME NEW t \in Tasks, Spawn(t)
      PROVE  Reports'
  <2>1. /\ call[t] \in Early /\ call' = [call EXCEPT ![t] = IF @ = "cold" THEN "spawned" ELSE "adopted"]
        /\ state' = [state EXCEPT ![t] = "running"]
        /\ limit' = [limit EXCEPT ![t] = "sleep"]
        /\ UNCHANGED <<permit, notes, read>>
        /\ \A u \in Tasks \ {t} : runner'[u] = runner[u]
    BY <1>t, <1>2 DEF Spawn, Early, TypeOK
  <2>2. state[t] = "none" /\ ~permit[t]
    BY <1>t, <2>1, Zenon DEF RunnerReady, Reports, Early
  <2>3. "later" \notin Sent(t) /\ "now" \notin Sent(t)
    BY <1>t, <2>2, Zenon DEF Reports
  <2> QED BY <1>t, <2>1, <2>2, <2>3, SentSame DEF Reports, TypeOK, Early
<1>3. ASSUME NEW t \in Tasks, RunShell(t)
      PROVE  Reports'
  <2>1. /\ UNCHANGED <<call, permit, limit, notes, read>>
        /\ runner[t] = "spawn"
        /\ \A u \in Tasks \ {t} : runner'[u] = runner[u] /\ state'[u] = state[u]
        /\ state'[t] = state[t] \/ (state'[t] = "failed" /\ runner'[t] = "done")
    BY <1>t, <1>3 DEF RunShell, TypeOK
  <2> QED BY <1>t, <2>1, SentSame, Zenon DEF Reports
<1>4. ASSUME NEW t \in Tasks, Finalize(t)
      PROVE  Reports'
  <2>1. /\ UNCHANGED <<call, permit, limit, read>>
        /\ runner[t] \in {"ok", "bad"} /\ runner' = [runner EXCEPT ![t] = "done"]
    BY <1>4, Zenon DEF Finalize
  <2>2. CASE InMap(t) /\ state[t] # "killed"
    <3>1. /\ \A u \in Tasks \ {t} : state'[u] = state[u]
          /\ state'[t] \in {"completed", "failed"}
      BY <1>t, <1>4, <2>2 DEF Finalize, TypeOK
    <3>2. ~permit[t]
      BY <1>t, <2>1, <2>2, Zenon DEF Reports, InMap, Terminal
    <3>3. notes' = notes \/ Push(t, "later")
      BY <1>4, <2>2, Zenon DEF Finalize
    <3>4. \A u \in Tasks : /\ "now" \in Sent(u)' <=> "now" \in Sent(u)
                           /\ u # t => Sent(u)' = Sent(u)
      <4>1. CASE notes' = notes
        BY <2>1, <4>1, SentSame, Zenon
      <4>2. CASE Push(t, "later")
        <5>1. \A u \in Tasks : Sent(u)' = Sent(u) \cup (IF u = t THEN {"later"} ELSE {})
          BY <2>1, <4>2, SentPush, Zenon DEF Priorities
        <5> QED BY <5>1
      <4> QED BY <3>3, <4>1, <4>2, Zenon
    <3> QED BY <1>t, <2>1, <3>1, <3>2, <3>4 DEF Reports, TypeOK
  <2>3. CASE ~(InMap(t) /\ state[t] # "killed")
    <3>1. UNCHANGED <<state, notes>>
      BY <1>4, <2>3, Zenon DEF Finalize
    <3> QED BY <1>t, <2>1, <3>1, SentSame, ReportsFrame DEF TypeOK
  <2> QED BY <2>2, <2>3, Zenon
<1>5. ASSUME NEW t \in Tasks, Limit(t)
      PROVE  Reports'
  <2>1. CASE state[t] = "running"
    <3>1. /\ state' = [state EXCEPT ![t] = "killed"] /\ permit' = [permit EXCEPT ![t] = TRUE]
          /\ UNCHANGED <<call, runner, notes, read>>
          /\ \A u \in Tasks \ {t} : limit'[u] = limit[u]
      BY <1>t, <1>5, <2>1 DEF Limit, TypeOK
    <3>2. "later" \notin Sent(t) /\ call[t] \notin Early
      BY <1>t, <2>1, Zenon DEF Reports, RunnerReady, Early
    <3> QED BY <1>t, <3>1, <3>2, SentSame DEF Reports, TypeOK
  <2>2. CASE state[t] # "running"
    <3>1. UNCHANGED <<permit, state, call, runner, notes, read>>
          /\ limit' = [limit EXCEPT ![t] = "done"]
      BY <1>5, <2>2, Zenon DEF Limit
    <3> QED BY <1>t, <3>1, SentSame, ReportsFrame DEF TypeOK
  <2> QED BY <2>1, <2>2, Zenon
<1>6. ASSUME NEW t \in Tasks, LimitNotifies(t)
      PROVE  Reports'
  <2>1. /\ UNCHANGED <<permit, state, call, runner, read>> /\ Push(t, "now")
        /\ limit[t] = "notify" /\ limit' = [limit EXCEPT ![t] = "done"]
    BY <1>6, Zenon DEF LimitNotifies
  <2>2. permit[t]
    BY <1>t, <2>1, Zenon DEF Reports
  <2>3. \A u \in Tasks : /\ "later" \in Sent(u)' <=> "later" \in Sent(u)
                         /\ u # t => Sent(u)' = Sent(u)
    <3>1. \A u \in Tasks : Sent(u)' = Sent(u) \cup (IF u = t THEN {"now"} ELSE {})
      BY <2>1, SentPush, Zenon DEF Priorities
    <3> QED BY <3>1
  <2> QED BY <1>t, <2>1, <2>2, <2>3 DEF Reports, TypeOK
<1>7. ASSUME NEW t \in Tasks, Alert(t)
      PROVE  Reports'
  <2>1. UNCHANGED <<permit, state, call, runner, limit, read>> /\ (notes' = notes \/ Push(t, "next"))
    BY <1>7, Zenon DEF Alert
  <2>2. \A u \in Tasks : Sent(u)' \cap {"now", "later"} = Sent(u) \cap {"now", "later"}
    <3>1. CASE notes' = notes
      BY <2>1, <3>1, SentSame, Zenon
    <3>2. CASE Push(t, "next")
      <4>1. \A u \in Tasks : Sent(u)' = Sent(u) \cup (IF u = t THEN {"next"} ELSE {})
        BY <2>1, <3>2, SentPush, Zenon DEF Priorities
      <4> QED BY <4>1, Zenon
    <3> QED BY <2>1, <3>1, <3>2, Zenon
  <2> QED BY <2>1, <2>2, ReportsFrame, Zenon
<1>8. ASSUME NEW s \in Sessions, StopForceful(s) \/ StopClears(s)
      PROVE  Reports'
  <2>1. UNCHANGED <<permit, state, call, runner, limit, notes, read>>
    BY <1>8, Zenon DEF StopForceful, StopClears, ClearExecState
  <2> QED BY <2>1, SentSame, ReportsFrame, Zenon
<1>9. ASSUME NEW s \in Sessions, Cleanup(s)
      PROVE  Reports'
  <2>1. /\ UNCHANGED <<permit, call, runner, limit, notes, read>>
        /\ \A u \in Tasks : state'[u] = state[u] \/ state'[u] = "gone"
    BY <1>t, <1>9, Zenon DEF Cleanup, TypeOK
  <2> QED BY <1>t, <2>1, SentSame, Zenon DEF Reports
<1>10. ASSUME NEW s \in Sessions, Drain(s)
      PROVE  Reports'
  <2>1. UNCHANGED <<permit, state, call, runner, limit>>
    BY <1>10, Zenon DEF Drain
  <2> QED BY <1>10, <2>1, SentDrain, ReportsFrame, Zenon DEF ReportInv
<1>11. ASSUME NEW s \in Sessions, NEW t \in Tasks, Kill(s, t)
      PROVE  Reports'
  <2>1. /\ UNCHANGED <<permit, call, runner, limit, notes, read>>
        /\ \A u \in Tasks \ {t} : state'[u] = state[u]
        /\ state'[t] = state[t] \/ (state[t] = "running" /\ state'[t] = "killed")
    BY <1>t, <1>11 DEF Kill, TypeOK
  <2> QED BY <1>t, <2>1, SentSame, Zenon DEF Reports
<1>12. CASE UNCHANGED vars
  <2>1. UNCHANGED <<permit, state, call, runner, limit, notes, read>>
    BY <1>12, Zenon DEF vars
  <2> QED BY <2>1, SentSame, ReportsFrame, Zenon
<1> QED
  BY <1>1, <1>2, <1>3, <1>4, <1>5, <1>6, <1>7, <1>8, <1>9, <1>10, <1>11, <1>12, Zenon
  DEF Next, Runner, LimitMonitor

LEMMA ReportsInit == Init => ReportInv
<1> SUFFICES ASSUME Init PROVE Reports
  BY TypeInit, Zenon DEF ReportInv
<1>1. \A t \in Tasks : Sent(t) = {}
  BY Zenon DEF Init, Sent
<1> QED BY <1>1, Zenon DEF Init, Reports

\* The completion that finalize_state reports and the notice of the time limit
\* exclude each other, for any number of tasks, stops, purges and turns.
THEOREM EndIsReportedOnce == Spec => []EndReportedOnce
<1>1. ReportInv => EndReportedOnce
  BY Zenon DEF ReportInv, Reports, EndReportedOnce
<1> QED
  BY ReportsInit, ReportsStep, <1>1, PTL DEF Spec

\* A task that was killed and not by the time limit has no report of an end.
THEOREM StopIsQuiet == Spec => []KilledByStopIsQuiet
<1>1. ReportInv => KilledByStopIsQuiet
  BY Zenon DEF ReportInv, Reports, KilledByStopIsQuiet, Sent
<1> QED
  BY ReportsInit, ReportsStep, <1>1, PTL DEF Spec
=============================================================================
