---------------------------- MODULE DaemonProofs ----------------------------
(***************************************************************************)
(* What holds of GatewayRestart for every set of files and sessions, every *)
(* capacity and every bound; and of Shutdown (at the end) for any       *)
(* turns, levels of the session tree and signals.                          *)
(***************************************************************************)
EXTENDS GatewayRestart, Shutdown, SequenceTheorems, TLAPS

\* No copy of a file is newer than the disk, and the disk no newer than the
\* last edit.
Versions ==
  \A s \in Sections :
    /\ staged[s] <= disk[s] /\ drained[s] <= disk[s] /\ cache[s] <= disk[s]
    /\ disk[s] <= edits

\* What the daemon started with is valid.
StartIsValid == \A s \in Sections : <<s, 0>> \notin bad

\* Every copy of a file was valid when it was taken.
Validated ==
  \A s \in Sections :
    <<s, staged[s]>> \notin bad /\ <<s, drained[s]>> \notin bad
      /\ <<s, cache[s]>> \notin bad

\* From the runtime through what is being applied to what is staged, versions
\* do not decrease.
Ordered ==
  \A s \in Sections \ Accounts :
    /\ staged[s] # 0 => cache[s] <= staged[s] /\ drained[s] <= staged[s]
    /\ drained[s] # 0 => cache[s] <= drained[s]

\* Values are taken out of the staging area only to be applied.
DrainedIsApplied == \A s \in Sections : drained[s] # 0 => loop = "apply"

\* The newest copy of gateway.json the daemon holds.
Latest == IF staged[Gateway] # 0 THEN staged[Gateway]
          ELSE IF drained[Gateway] # 0 THEN drained[Gateway] ELSE cache[Gateway]

\* A valid gateway.json that waits for no dispatch has been taken.
Taken ==
  (/\ Gateway \notin paths \cup batch
   /\ <<Gateway, disk[Gateway]>> \notin bad) => Latest = disk[Gateway]

\* A gateway built from an older gateway.json will be rebuilt.
Rebuilt ==
  \/ built = disk[Gateway]
  \/ Gateway \in paths \cup batch \cup {current}
  \/ restartRx > 0 \/ rstate = "Pending" \/ loop = "rebuild"
  \/ given /\ loop \notin {"built", "swapped"}

Inv == /\ TypeOK /\ Versions /\ StartIsValid /\ Validated /\ Ordered
       /\ DrainedIsApplied /\ StagedIsUnderway /\ Taken /\ Rebuilt

-----------------------------------------------------------------------------
\* Waking the watchdogs, and spawning one, keep the list a list of watchdogs.
LEMMA WakeType ==
  ASSUME NEW ds \in Seq(Dog)
  PROVE  Wake(ds) \in Seq(Dog) /\ Append(Wake(ds), NewDog) \in Seq(Dog)
<1>0. \A d \in Dog : [d EXCEPT !.unseen = TRUE] \in Dog
  BY Zenon DEF Dog
<1>1. \A i \in 1..Len(ds) : [ds[i] EXCEPT !.unseen = TRUE] \in Dog
  BY <1>0, ElementOfSeq, Zenon
<1>2. DOMAIN ds = 1..Len(ds) /\ Len(ds) \in Nat
  BY LenProperties, Zenon
<1>3. Wake(ds) \in [1..Len(ds) -> Dog]
  BY <1>1, <1>2, Zenon DEF Wake
<1>4. Wake(ds) \in Seq(Dog)
  BY <1>2, <1>3, SeqDef, Zenon
<1>5. NewDog \in Dog
  BY Zenon DEF NewDog, Dog
<1>6. QED
  BY <1>4, <1>5, AppendProperties, Zenon

\* A step of a watchdog replaces one watchdog.
LEMMA DogType ==
  ASSUME TypeOK, NEW i \in DOMAIN dogs, DogStep(i)
  PROVE  dogs' \in Seq(Dog)
<1>1. /\ dogs \in Seq(Dog) /\ i \in 1..Len(dogs)
  BY LenProperties, Zenon DEF TypeOK
<1>2. dogs[i] \in Dog
  BY <1>1, ElementOfSeq, Zenon
<1>3. \A d \in Dog : [dogs EXCEPT ![i] = d] \in Seq(Dog)
  BY <1>1, ExceptSeq, Zenon
<1>4. /\ [dogs[i] EXCEPT !.pc = "read", !.unseen = FALSE] \in Dog
      /\ [dogs[i] EXCEPT !.pc = "changed"] \in Dog
      /\ [dogs[i] EXCEPT !.pc = "check", !.left = Sessions] \in Dog
      /\ [dogs[i] EXCEPT !.pc = "sleep", !.left = {}] \in Dog
  BY <1>2, Zenon DEF Dog
<1>5. CASE DogWakes(i)
  BY <1>3, <1>4, <1>5, Zenon DEF DogWakes
<1>6. CASE DogReads(i)
  BY <1>3, <1>4, <1>6, Zenon DEF DogReads
<1>7. ASSUME NEW s \in Sessions, DogChecks(i, s)
      PROVE  dogs' \in Seq(Dog)
  <2>1. [dogs[i] EXCEPT !.left = dogs[i].left \ {s}] \in Dog
    BY <1>2, Zenon DEF Dog
  <2>2. CASE s \in active
    BY <1>3, <1>4, <1>7, <2>2, Zenon DEF DogChecks
  <2>3. CASE s \notin active
    BY <1>3, <1>7, <2>1, <2>3, Zenon DEF DogChecks
  <2>4. QED
    BY <2>2, <2>3, Zenon
<1>8. CASE DogSends(i) \/ DogSleeps(i)
  BY <1>3, <1>4, <1>8, Zenon DEF DogSends, DogSleeps
<1>9. QED
  BY <1>5, <1>6, <1>7, <1>8, Zenon DEF DogStep

\* Every step keeps the list of watchdogs one.
LEMMA DogsType == TypeOK /\ [Next]_vars => dogs' \in Seq(Dog)
<1> SUFFICES ASSUME TypeOK, [Next]_vars
             PROVE  dogs' \in Seq(Dog)
  OBVIOUS
<1>1. dogs \in Seq(Dog)
  BY Zenon DEF TypeOK
<1>2. CASE \E i \in DOMAIN dogs : DogStep(i)
  BY <1>2, DogType, Zenon
<1>3. CASE dogs' \in {Wake(dogs), Append(Wake(dogs), NewDog)}
  BY <1>1, <1>3, WakeType, Zenon
<1>4. CASE dogs' = dogs
  BY <1>1, <1>4, Zenon
<1>5. CASE MainLoop
  BY <1>3, <1>4, <1>5, Zenon
     DEF MainLoop, RecvRestart, RecvForce, RecvCancel, RecvReady,
         BuildNewGateway, SwapAndNotify, DrainPending, RestartDone,
         UpdateSectionCache, dogVars
<1>6. CASE Reload
  BY <1>4, <1>6, Zenon
     DEF Reload, DispatchBatch, OnConfigFileChanged, ReloadSection, dogVars
<1>7. QED
  BY <1>2, <1>4, <1>5, <1>6, Zenon
     DEF Next, EditFile, SendCommand, ToggleSession, ForceSends, vars, dogVars

-----------------------------------------------------------------------------
\* The initial state satisfies the inductive invariant.
LEMMA InitInv == Init => Inv
<1> SUFFICES ASSUME Init PROVE Inv
  OBVIOUS
<1> USE ConstantsAssumption
<1>1. dogs \in Seq(Dog) /\ adminRx \in Seq(BOOLEAN) /\ Len(adminRx) = 0
  BY EmptySeq, Zenon DEF Init
<1>2. ready \in BOOLEAN /\ given \in BOOLEAN
  BY Zenon DEF Init
<1>3. TypeOK
  BY <1>1, <1>2 DEF Init, TypeOK, Version, RestartState
<1>4. Versions /\ StartIsValid /\ Validated /\ Ordered /\ DrainedIsApplied
  BY DEF Init, Versions, StartIsValid, Validated, Ordered, DrainedIsApplied
<1>5. StagedIsUnderway /\ Taken /\ Rebuilt
  BY Zenon DEF Init, StagedIsUnderway, Taken, Latest, Rebuilt
<1>6. QED
  BY <1>3, <1>4, <1>5, Zenon DEF Inv

\* Every step keeps the types.
LEMMA TypeStep == TypeOK /\ [Next]_vars => TypeOK'
<1> SUFFICES ASSUME TypeOK, [Next]_vars
             PROVE  TypeOK'
  OBVIOUS
<1> USE ConstantsAssumption
<1>d. dogs' \in Seq(Dog)
  BY DogsType, Zenon
<1>1. ASSUME NEW s \in Sections, EditFile(s)
      PROVE  TypeOK'
  <2>0. edits + 1 \in Version /\ edits' = edits + 1
    <3>1. edits \in 0 .. MaxEdits /\ edits < MaxEdits /\ edits' = edits + 1
      BY <1>1, Zenon DEF TypeOK, EditFile, Version
    <3> QED BY <3>1 DEF Version
  <2>1. disk' \in [Sections -> Version]
    BY <1>1, <2>0, Zenon DEF TypeOK, EditFile
  <2>2. <<s, edits + 1>> \in Sections \X Version
    BY <1>1, <2>0, Zenon
  <2>3. /\ bad' \subseteq Sections \X Version
        /\ rebound' \subseteq Sections \X Version
    BY <1>1, <2>2 DEF TypeOK, EditFile
  <2>4. QED
    BY <1>1, <1>d, <2>0, <2>1, <2>3, Zenon DEF TypeOK, EditFile, configVars, chanVars,
                                  loopVars, dogVars
<1>2. ASSUME NEW s \in Sections, ReloadSection(s)
      PROVE  TypeOK'
  BY <1>2, <1>d, Zenon DEF TypeOK, ReloadSection, chanVars, loopVars, dogVars, Version
<1>3. CASE DispatchBatch
  BY <1>3, <1>d, Zenon DEF TypeOK, DispatchBatch, configVars, chanVars, loopVars,
                    dogVars
<1>4. CASE OnConfigFileChanged
  <2>1. given' \in BOOLEAN
    BY <1>4, Zenon DEF OnConfigFileChanged
  <2>2. QED
    BY <1>4, <1>d, <2>1 DEF TypeOK, OnConfigFileChanged, configVars, chanVars,
                            loopVars, dogVars
<1>5. ASSUME NEW force \in BOOLEAN, SendCommand(force)
      PROVE  TypeOK'
  <2>1. adminRx' \in Seq(BOOLEAN) /\ Len(adminRx') = Len(adminRx) + 1
    BY <1>5, AppendProperties DEF TypeOK, SendCommand
  <2>2. Len(adminRx) \in Nat
    BY LenProperties, Zenon DEF TypeOK
  <2>3. QED
    BY <1>5, <1>d, <2>1, <2>2 DEF TypeOK, SendCommand, reloadVars, configVars,
                                  loopVars, dogVars
<1>6. CASE RecvRestart
  BY <1>6, <1>d DEF TypeOK, RecvRestart, reloadVars, configVars, RestartState
<1>7. CASE RecvForce \/ RecvCancel
  <2>a. /\ adminRx \in Seq(BOOLEAN) /\ adminRx # <<>>
        /\ adminRx' = Tail(adminRx) /\ loop = "select"
    BY <1>7, Zenon DEF TypeOK, RecvForce, RecvCancel, AdminTurn
  <2>b. adminRx' \in Seq(BOOLEAN) /\ Len(adminRx') = Len(adminRx) - 1
    BY <2>a, HeadTailProperties, Zenon
  <2>c. Len(adminRx) \in Nat
    BY <2>a, LenProperties, Zenon
  <2>1. adminRx' \in Seq(BOOLEAN) /\ Len(adminRx') <= AdminCap
    BY <2>b, <2>c DEF TypeOK
  <2>2. CASE RecvForce
    <3>0. forcing \in Nat /\ forcing' \in {forcing, forcing + 1}
      BY <2>2, Zenon DEF TypeOK, RecvForce
    <3>1. forcing' \in Nat /\ rstate' = "Pending" /\ UNCHANGED loop
      <4>1. forcing' \in Nat
        BY <3>0
      <4>2. QED
        BY <2>2, <4>1, Zenon DEF RecvForce
    <3>2. UNCHANGED <<reloadVars, configVars, restartRx, commands, built,
                      drained, ready, active, given>>
      BY <2>2, Zenon DEF RecvForce
    <3>3. QED
      BY <2>1, <2>a, <1>d, <3>1, <3>2, Zenon DEF TypeOK, reloadVars, configVars,
                                          RestartState
  <2>3. CASE RecvCancel
    <3>1. given' \in BOOLEAN
      BY <2>3, Zenon DEF RecvCancel, TypeOK
    <3>2. rstate' = "Idle" /\ UNCHANGED loop
      BY <2>3, Zenon DEF RecvCancel
    <3>3. UNCHANGED <<reloadVars, configVars, restartRx, commands, built,
                      drained, ready, forcing, active>>
      BY <2>3, Zenon DEF RecvCancel
    <3>4. QED
      BY <2>1, <2>a, <1>d, <3>1, <3>2, <3>3, Zenon DEF TypeOK, reloadVars, configVars,
                                                RestartState
  <2>4. QED
    BY <1>7, <2>2, <2>3, Zenon
<1>8. CASE RecvReady
  BY <1>8, <1>d, Zenon DEF TypeOK, RecvReady, reloadVars, configVars, chanVars,
                    RestartState
<1>9. CASE BuildNewGateway \/ SwapAndNotify \/ RestartDone
  <2>1. built' \in Version /\ rstate' \in RestartState
    BY <1>9 DEF TypeOK, BuildNewGateway, SwapAndNotify, RestartDone,
                RestartState
  <2>2. /\ loop' \in {"select", "rebuild", "built", "swapped", "apply"}
        /\ rstate' = "Executing" <=> loop' \in {"rebuild", "built"}
    BY <1>9, Zenon DEF TypeOK, BuildNewGateway, SwapAndNotify, RestartDone
  <2>3. UNCHANGED <<reloadVars, configVars, chanVars, drained, ready, forcing,
                    active, given>>
    BY <1>9, Zenon DEF BuildNewGateway, SwapAndNotify, RestartDone, dogVars
  <2>4. QED
    BY <1>d, <2>1, <2>2, <2>3, Zenon DEF TypeOK, reloadVars, configVars, chanVars
<1>16. CASE DrainPending
  <2>1. given' \in BOOLEAN
    BY <1>16, Zenon DEF DrainPending
  <2>2. staged' \in [Sections -> Version] /\ drained' \in [Sections -> Version]
    BY <1>16 DEF DrainPending, TypeOK, Version
  <2>3. QED
    BY <1>16, <1>d, <2>1, <2>2, Zenon DEF TypeOK, DrainPending, reloadVars, chanVars,
                                   dogVars
<1>10. ASSUME NEW s \in Sections, UpdateSectionCache(s)
       PROVE  TypeOK'
  <2>1. cache' \in [Sections -> Version] /\ drained' \in [Sections -> Version]
    <3>1. cache \in [Sections -> Version] /\ drained \in [Sections -> Version]
      BY Zenon DEF TypeOK
    <3>2. 0 \in Version
      BY ConstantsAssumption DEF Version
    <3>3. QED
      BY <1>10, <3>1, <3>2, Zenon DEF UpdateSectionCache
  <2>2. /\ UNCHANGED <<reloadVars, chanVars, dogVars>>
        /\ UNCHANGED <<staged, rstate, loop, built, active, given>>
    BY <1>10, Zenon DEF UpdateSectionCache
  <2>3. QED
    BY <1>d, <2>1, <2>2, Zenon DEF TypeOK, reloadVars, chanVars, dogVars
<1>11. ASSUME NEW s \in Sessions, ToggleSession(s)
       PROVE  TypeOK'
  BY <1>11, <1>d, Zenon DEF TypeOK, ToggleSession, reloadVars, configVars, chanVars,
                     loopVars, dogVars
<1>12. CASE ForceSends
  BY <1>12, <1>d DEF TypeOK, ForceSends, reloadVars, configVars, chanVars,
                     loopVars
<1>13. ASSUME NEW i \in DOMAIN dogs, DogStep(i)
       PROVE  TypeOK'
  <2>1. /\ UNCHANGED <<reloadVars, configVars, chanVars, loopVars, forcing,
                       active, given>>
        /\ ready' = ready \/ ready' = TRUE
    BY <1>13, Zenon DEF DogStep, DogWakes, DogReads, DogChecks, DogSends, DogSleeps
  <2>2. QED
    BY <2>1, <1>d, Zenon DEF TypeOK, reloadVars, configVars, chanVars, loopVars
<1>14. CASE UNCHANGED vars
  BY <1>14, Zenon DEF TypeOK, vars, reloadVars, configVars, chanVars, loopVars, dogVars
<1>17. QED
  BY <1>1, <1>2, <1>3, <1>4, <1>5, <1>6, <1>7, <1>8, <1>9, <1>10, <1>11, <1>12,
     <1>13, <1>14, <1>16, Zenon DEF Next, Reload, MainLoop

-----------------------------------------------------------------------------
\* Versions are numbers.
LEMMA VersionsAreNumbers ==
  ASSUME TypeOK, NEW s \in Sections
  PROVE  disk[s] \in Nat /\ staged[s] \in Nat /\ drained[s] \in Nat
           /\ cache[s] \in Nat /\ edits \in Nat
  BY ConstantsAssumption DEF TypeOK, Version

\* What is copied where.
Files == Versions /\ StartIsValid /\ Validated /\ Ordered /\ DrainedIsApplied

fileVars == <<disk, bad, edits, configVars, drained>>

\* Steps other than these four touch no copy of a file; those of the main loop
\* that change its place do not leave anything unapplied.
LEMMA OtherSteps ==
  ASSUME TypeOK, Next, DrainedIsApplied,
         \A s \in Sections : ~EditFile(s),
         \A s \in Sections : ~ReloadSection(s),
         ~DrainPending,
         \A s \in Sections : ~UpdateSectionCache(s)
  PROVE  UNCHANGED fileVars /\ DrainedIsApplied'
<1>1. CASE Reload
  BY <1>1, Zenon DEF Reload, DispatchBatch, OnConfigFileChanged, fileVars, configVars,
              loopVars, DrainedIsApplied
<1>2. CASE MainLoop
  <2>1. UNCHANGED fileVars
    BY <1>2, Zenon DEF MainLoop, RecvRestart, RecvForce, RecvCancel, RecvReady,
                BuildNewGateway, SwapAndNotify, RestartDone, fileVars,
                configVars, reloadVars
  <2>2. \/ loop = "apply" => loop' = "apply"
        \/ \A s \in Sections : drained[s] = 0
    BY <1>2, Zenon DEF MainLoop, RecvRestart, RecvForce, RecvCancel, RecvReady,
                BuildNewGateway, SwapAndNotify, RestartDone, AdminTurn
  <2>3. QED
    BY <2>1, <2>2, Zenon DEF fileVars, DrainedIsApplied
<1>3. ASSUME NEW i \in DOMAIN dogs, DogStep(i)
      PROVE  UNCHANGED fileVars /\ UNCHANGED loop
  BY <1>3, Zenon DEF DogStep, DogWakes, DogReads, DogChecks, DogSends, DogSleeps,
              fileVars, configVars, loopVars, reloadVars
<1>4. ASSUME ForceSends \/ (\E force \in BOOLEAN : SendCommand(force))
               \/ (\E s \in Sessions : ToggleSession(s))
      PROVE  UNCHANGED fileVars /\ UNCHANGED loop
  BY <1>4, Zenon DEF ForceSends, SendCommand, ToggleSession, fileVars, configVars,
              loopVars, reloadVars
<1>5. QED
  BY <1>1, <1>2, <1>3, <1>4, Zenon DEF Next, fileVars, DrainedIsApplied

\* Copies of files stay valid, ordered, and no newer than their origin.
LEMMA FilesStep == TypeOK /\ Files /\ [Next]_vars => Files'
<1> SUFFICES ASSUME TypeOK, Files, [Next]_vars
             PROVE  Files'
  OBVIOUS
<1> USE ConstantsAssumption
<1>0. \A s \in Sections : /\ disk[s] \in Nat /\ staged[s] \in Nat
                          /\ drained[s] \in Nat /\ cache[s] \in Nat
                          /\ edits \in Nat
  BY VersionsAreNumbers, Zenon
<1>1. ASSUME NEW s \in Sections, EditFile(s)
      PROVE  Files'
  <2>1. /\ UNCHANGED <<staged, cache, drained, loop>>
        /\ edits' = edits + 1
        /\ \A t \in Sections : disk'[t] = IF t = s THEN edits + 1 ELSE disk[t]
        /\ bad' \subseteq bad \cup {<<s, edits + 1>>}
    BY <1>1, Zenon DEF EditFile, configVars, loopVars, TypeOK
  <2>2. Versions'
    BY <1>0, <2>1 DEF Files, Versions
  <2>6. StartIsValid'
    <3>1. \A t \in Sections : <<t, 0>> # <<s, edits + 1>>
      BY <1>0
    <3>2. QED
      BY <2>1, <3>1, Zenon DEF Files, StartIsValid
  <2>3. Validated'
    <3> SUFFICES ASSUME NEW t \in Sections, NEW v \in Nat, v <= disk[t],
                        <<t, v>> \notin bad
                 PROVE  <<t, v>> \notin bad'
      BY <1>0, <2>1, Zenon DEF Files, Versions, Validated
    <3>1. v # edits + 1
      BY <1>0 DEF Files, Versions
    <3>2. QED
      BY <2>1, <3>1, Zenon
  <2>4. Ordered' /\ DrainedIsApplied'
    BY <2>1, Zenon DEF Files, Ordered, DrainedIsApplied
  <2>7. QED
    BY <2>2, <2>3, <2>4, <2>6, Zenon DEF Files
<1>2. ASSUME NEW s \in Sections, ReloadSection(s)
      PROVE  Files'
  <2>1. UNCHANGED <<disk, bad, edits, drained, loop>>
    BY <1>2, Zenon DEF ReloadSection, loopVars
  <2>2. CASE UNCHANGED <<staged, cache>>
    BY <2>1, <2>2, Zenon DEF Files, Versions, StartIsValid, Validated, Ordered,
                      DrainedIsApplied
  <2>3. CASE /\ <<s, disk[s]>> \notin bad /\ s \in Accounts
             /\ cache' = [cache EXCEPT ![s] = disk[s]] /\ UNCHANGED staged
    <3>1. \A t \in Sections : cache'[t] = IF t = s THEN disk[s] ELSE cache[t]
      BY <2>3, Zenon DEF TypeOK
    <3>11. Versions'
      BY <1>0, <2>1, <2>3, <3>1 DEF Files, Versions
    <3>12. Validated'
      <4>1. \A t \in Sections : <<t, cache'[t]>> \notin bad
        <5> TAKE t \in Sections
        <5>1. CASE t = s
          BY <2>3, <3>1, <5>1, Zenon
        <5>2. CASE t # s
          BY <3>1, <5>2, Zenon DEF Files, Validated
        <5>3. QED
          BY <5>1, <5>2, Zenon
      <4>2. QED
        BY <2>1, <2>3, <4>1, Zenon DEF Files, Validated
    <3>13. Ordered'
      BY <1>0, <2>1, <2>3, <3>1, Zenon DEF Files, Versions, Ordered
    <3>14. DrainedIsApplied'
      BY <1>0, <2>1, <2>3, <3>1, Zenon DEF Files, Versions, DrainedIsApplied
    <3>15. StartIsValid'
      BY <2>1, Zenon DEF Files, StartIsValid
    <3>16. QED
      BY <3>15, <3>11, <3>12, <3>13, <3>14, Zenon DEF Files
  <2>4. CASE /\ <<s, disk[s]>> \notin bad
             /\ staged' = [staged EXCEPT ![s] = disk[s]] /\ UNCHANGED cache
    <3>1. \A t \in Sections : staged'[t] = IF t = s THEN disk[s] ELSE staged[t]
      BY <2>4, Zenon DEF TypeOK
    <3>11. Versions'
      BY <1>0, <2>1, <2>4, <3>1 DEF Files, Versions
    <3>12. Validated'
      <4>1. \A t \in Sections : <<t, staged'[t]>> \notin bad
        <5> TAKE t \in Sections
        <5>1. CASE t = s
          BY <2>4, <3>1, <5>1, Zenon
        <5>2. CASE t # s
          BY <3>1, <5>2, Zenon DEF Files, Validated
        <5>3. QED
          BY <5>1, <5>2, Zenon
      <4>2. QED
        BY <2>1, <2>4, <4>1, Zenon DEF Files, Validated
    <3>13. Ordered'
      BY <1>0, <2>1, <2>4, <3>1, Zenon DEF Files, Versions, Ordered
    <3>14. DrainedIsApplied'
      BY <1>0, <2>1, <2>4, <3>1, Zenon DEF Files, Versions, DrainedIsApplied
    <3>15. StartIsValid'
      BY <2>1, Zenon DEF Files, StartIsValid
    <3>16. QED
      BY <3>15, <3>11, <3>12, <3>13, <3>14, Zenon DEF Files
  <2>5. QED
    BY <1>2, <2>2, <2>3, <2>4, Zenon DEF ReloadSection
<1>3. CASE DrainPending
  <2>1. /\ UNCHANGED <<disk, bad, edits, cache>>
        /\ drained' = staged /\ loop' = "apply"
        /\ \A t \in Sections : staged'[t] = 0
    BY <1>3, Zenon DEF DrainPending, reloadVars
  <2>11. Versions'
    BY <1>0, <2>1 DEF Files, Versions
  <2>12. Validated'
    BY <1>0, <2>1, Zenon DEF Files, StartIsValid, Validated
  <2>13. Ordered'
    BY <1>0, <2>1, Zenon DEF Files, Versions, Ordered
  <2>14. DrainedIsApplied'
    BY <1>0, <2>1, Zenon DEF Files, Versions, DrainedIsApplied
  <2>15. StartIsValid'
    BY <2>1, Zenon DEF Files, StartIsValid
  <2>16. QED
    BY <2>15, <2>11, <2>12, <2>13, <2>14, Zenon DEF Files
<1>4. ASSUME NEW s \in Sections, UpdateSectionCache(s)
      PROVE  Files'
  <2>1. /\ UNCHANGED <<disk, bad, edits, staged, loop>> /\ drained[s] # 0
        /\ \A t \in Sections :
             cache'[t] = IF t = s THEN drained[s] ELSE cache[t]
        /\ \A t \in Sections : drained'[t] = IF t = s THEN 0 ELSE drained[t]
    BY <1>4, Zenon DEF UpdateSectionCache, reloadVars, TypeOK
  <2>11. Versions'
    BY <1>0, <2>1 DEF Files, Versions
  <2>12. Validated'
    BY <1>0, <2>1, Zenon DEF Files, StartIsValid, Validated
  <2>13. Ordered'
    BY <1>0, <2>1 DEF Files, Versions, Ordered
  <2>14. DrainedIsApplied'
    BY <1>0, <2>1, Zenon DEF Files, Versions, DrainedIsApplied
  <2>15. StartIsValid'
    BY <2>1, Zenon DEF Files, StartIsValid
  <2>16. QED
    BY <2>15, <2>11, <2>12, <2>13, <2>14, Zenon DEF Files
<1>5. CASE UNCHANGED fileVars /\ DrainedIsApplied'
  BY <1>5, Zenon DEF fileVars, configVars, Files, Versions, StartIsValid, Validated,
              Ordered
<1>6. CASE UNCHANGED vars
  BY <1>6, Zenon DEF vars, reloadVars, configVars, loopVars, Files, Versions,
              StartIsValid, Validated, Ordered, DrainedIsApplied
<1>7. QED
  BY <1>1, <1>2, <1>3, <1>4, <1>5, <1>6, OtherSteps, Zenon DEF Files

-----------------------------------------------------------------------------
\* Where signals and restarts are.
signalVars == <<current, restartRx, rstate, loop, built, given>>

\* The steps of watchdogs, sessions and operators move no signal and no file.
Outside == \/ \E force \in BOOLEAN : SendCommand(force)
           \/ \E s \in Sessions : ToggleSession(s)
           \/ ForceSends
           \/ \E i \in DOMAIN dogs : DogStep(i)

\* Those steps leave the reload thread, the signals and the copies alone.
LEMMA OutsideSteps ==
  ASSUME Outside
  PROVE  UNCHANGED <<signalVars, reloadVars, configVars, drained>>
<1>1. ASSUME NEW i \in DOMAIN dogs, DogStep(i)
      PROVE  UNCHANGED <<signalVars, reloadVars, configVars, drained>>
  BY <1>1, Zenon DEF DogStep, DogWakes, DogReads, DogChecks, DogSends, DogSleeps,
              signalVars, configVars, loopVars, reloadVars, chanVars
<1>2. QED
  BY <1>1, Zenon DEF Outside, ForceSends, SendCommand, ToggleSession, signalVars,
              reloadVars, configVars, loopVars, chanVars

\* What is staged stays on its way.
LEMMA SignalsStep ==
  TypeOK /\ StagedIsUnderway /\ [Next]_vars => StagedIsUnderway'
<1> SUFFICES ASSUME TypeOK, StagedIsUnderway, [Next]_vars
             PROVE  StagedIsUnderway'
  OBVIOUS
<1> USE ConstantsAssumption DEF StagedIsUnderway, Underway
<1>1. CASE \E s \in Sections : EditFile(s)
  BY <1>1 DEF EditFile, configVars, chanVars, loopVars
<1>2. CASE DispatchBatch
  BY <1>2, Zenon DEF DispatchBatch, configVars, chanVars, loopVars
<1>3. ASSUME NEW s \in Sections, ReloadSection(s)
      PROVE  StagedIsUnderway'
  <2>1. /\ UNCHANGED <<restartRx, rstate, loop, given>>
        /\ current = NoSection
        /\ current' = IF s \in Credentials THEN NoSection ELSE s
    BY <1>3, Zenon DEF ReloadSection, chanVars, loopVars
  <2>2. \A t \in Sections : t # s => staged'[t] = staged[t]
    BY <1>3, Zenon DEF ReloadSection, TypeOK
  <2>3. QED
    BY <2>1, <2>2, Zenon
<1>4. CASE OnConfigFileChanged
  <2>1. restartRx' > 0
    BY <1>4 DEF OnConfigFileChanged, TypeOK
  <2>2. QED
    BY <2>1, Zenon
<1>5. CASE RecvRestart \/ RecvForce
  <2>1. rstate' = "Pending"
    BY <1>5, Zenon DEF RecvRestart, RecvForce
  <2>2. QED
    BY <2>1, Zenon
<1>6. CASE RecvCancel
  <2>1. CASE rstate = "Pending"
    <3>1. given'
      BY <1>6, <2>1, Zenon DEF RecvCancel
    <3>2. QED
      BY <3>1, Zenon
  <2>2. CASE rstate # "Pending"
    <3>1. UNCHANGED <<staged, current, restartRx, rstate, loop, given>>
      BY <1>6, <2>2, Zenon DEF RecvCancel, reloadVars, configVars
    <3>2. QED
      BY <3>1, Zenon
  <2>3. QED
    BY <2>1, <2>2, Zenon
<1>7. CASE RecvReady
  BY <1>7, Zenon DEF RecvReady, reloadVars, configVars, chanVars
<1>8. CASE BuildNewGateway
  BY <1>8, Zenon DEF BuildNewGateway, reloadVars, configVars, chanVars, TypeOK
<1>9. CASE SwapAndNotify
  BY <1>9, Zenon DEF SwapAndNotify
<1>10. CASE DrainPending
  BY <1>10, Zenon DEF DrainPending
<1>11. CASE RestartDone \/ \E s \in Sections : UpdateSectionCache(s)
  BY <1>11 DEF RestartDone, UpdateSectionCache, reloadVars, configVars, chanVars
<1>12. CASE Outside
  <2>1. UNCHANGED <<signalVars, reloadVars, configVars>>
    BY <1>12, OutsideSteps, Zenon
  <2>2. QED
    BY <2>1, Zenon DEF signalVars, configVars
<1>13. CASE UNCHANGED vars
  BY <1>13, Zenon DEF vars, reloadVars, configVars, chanVars, loopVars
<1>14. QED
  BY <1>1, <1>2, <1>3, <1>4, <1>5, <1>6, <1>7, <1>8, <1>9, <1>10, <1>11, <1>12,
     <1>13, Zenon DEF Next, Reload, MainLoop, Outside

\* A gateway built from an older gateway.json stays due for a rebuild.
LEMMA RebuiltStep == TypeOK /\ Rebuilt /\ [Next]_vars => Rebuilt'
<1> SUFFICES ASSUME TypeOK, Rebuilt, [Next]_vars
             PROVE  Rebuilt'
  OBVIOUS
<1> USE ConstantsAssumption DEF Rebuilt
<1>1. ASSUME NEW s \in Sections, EditFile(s)
      PROVE  Rebuilt'
  <2>1. s # Gateway => disk'[Gateway] = disk[Gateway]
    BY <1>1, Zenon DEF EditFile, TypeOK
  <2>2. QED
    BY <1>1, <2>1, Zenon DEF EditFile, chanVars, loopVars
<1>2. CASE DispatchBatch
  BY <1>2, Zenon DEF DispatchBatch, chanVars, loopVars
<1>3. ASSUME NEW s \in Sections, ReloadSection(s)
      PROVE  Rebuilt'
  BY <1>3, Zenon DEF ReloadSection, chanVars, loopVars
<1>4. CASE OnConfigFileChanged
  <2>1. restartRx' > 0
    BY <1>4 DEF OnConfigFileChanged, TypeOK
  <2>2. QED
    BY <2>1, Zenon
<1>5. CASE RecvRestart \/ RecvForce
  <2>1. rstate' = "Pending"
    BY <1>5, Zenon DEF RecvRestart, RecvForce
  <2>2. QED
    BY <2>1, Zenon
<1>6. CASE RecvCancel
  <2>1. CASE rstate = "Pending"
    <3>1. given' /\ loop' = "select"
      BY <1>6, <2>1, Zenon DEF RecvCancel, AdminTurn
    <3>2. QED
      BY <3>1, Zenon
  <2>2. CASE rstate # "Pending"
    <3>1. UNCHANGED <<disk, paths, batch, signalVars>>
      BY <1>6, <2>2, Zenon DEF RecvCancel, reloadVars, signalVars
    <3>2. QED
      BY <3>1, Zenon DEF signalVars
  <2>3. QED
    BY <2>1, <2>2, Zenon
<1>7. CASE RecvReady
  BY <1>7, Zenon DEF RecvReady, reloadVars, chanVars
<1>8. CASE BuildNewGateway
  BY <1>8, Zenon DEF BuildNewGateway, reloadVars
<1>9. CASE SwapAndNotify
  BY <1>9, Zenon DEF SwapAndNotify, reloadVars, chanVars, TypeOK
<1>10. CASE DrainPending
  BY <1>10, Zenon DEF DrainPending, reloadVars, chanVars
<1>11. CASE RestartDone \/ \E s \in Sections : UpdateSectionCache(s)
  BY <1>11, Zenon DEF RestartDone, UpdateSectionCache, reloadVars, chanVars
<1>12. CASE Outside
  <2>1. UNCHANGED <<signalVars, reloadVars, configVars>>
    BY <1>12, OutsideSteps, Zenon
  <2>2. QED
    BY <2>1, Zenon DEF signalVars, reloadVars
<1>13. CASE UNCHANGED vars
  BY <1>13, Zenon DEF vars, reloadVars, chanVars, loopVars
<1>14. QED
  BY <1>1, <1>2, <1>3, <1>4, <1>5, <1>6, <1>7, <1>8, <1>9, <1>10, <1>11, <1>12,
     <1>13, Zenon DEF Next, Reload, MainLoop, Outside

\* The newest copy of a valid gateway.json stays that of the disk.
LEMMA TakenStep == TypeOK /\ Files /\ Taken /\ [Next]_vars => Taken'
<1> SUFFICES ASSUME TypeOK, Files, Taken, [Next]_vars
             PROVE  Taken'
  OBVIOUS
<1> USE ConstantsAssumption DEF Taken
<1>0. /\ disk[Gateway] \in Nat /\ staged[Gateway] \in Nat
      /\ drained[Gateway] \in Nat /\ cache[Gateway] \in Nat
  BY VersionsAreNumbers, Zenon
<1>1. ASSUME NEW s \in Sections, EditFile(s)
      PROVE  Taken'
  <2>1. CASE s = Gateway
    BY <1>1, <2>1, Zenon DEF EditFile
  <2>2. CASE s # Gateway
    <3>1. /\ disk'[Gateway] = disk[Gateway] /\ bad \subseteq bad'
          /\ paths \subseteq paths' /\ UNCHANGED batch
      BY <1>1, <2>2, Zenon DEF EditFile, TypeOK
    <3>2. Latest' = Latest
      BY <1>1, Zenon DEF EditFile, configVars, loopVars, Latest
    <3>3. QED
      BY <3>1, <3>2, Zenon
  <2>3. QED
    BY <2>1, <2>2, Zenon
<1>2. CASE DispatchBatch
  BY <1>2, Zenon DEF DispatchBatch, configVars, loopVars, Latest
<1>3. ASSUME NEW s \in Sections, ReloadSection(s)
      PROVE  Taken'
  <2>1. UNCHANGED <<disk, bad, paths, drained>> /\ batch' = batch \ {s}
    BY <1>3, Zenon DEF ReloadSection, loopVars
  <2>2. CASE s = Gateway
    <3>1. CASE <<Gateway, disk[Gateway]>> \in bad
      BY <2>1, <3>1, Zenon
    <3>2. CASE <<Gateway, disk[Gateway]>> \notin bad
      <4>1. staged'[Gateway] = disk[Gateway] /\ UNCHANGED cache
        BY <1>3, <2>2, <3>2, Zenon DEF ReloadSection, TypeOK
      <4>2. Latest' = disk[Gateway]
        <5>1. CASE disk[Gateway] = 0
          <6>1. drained[Gateway] <= 0 /\ cache[Gateway] <= 0
            BY <5>1, Zenon DEF Files, Versions
          <6>2. drained[Gateway] = 0 /\ cache[Gateway] = 0
            BY <1>0, <6>1
          <6>3. QED
            BY <2>1, <4>1, <5>1, <6>2, Zenon DEF Latest
        <5>2. CASE disk[Gateway] # 0
          BY <4>1, <5>2, Zenon DEF Latest
        <5>3. QED
          BY <5>1, <5>2, Zenon
      <4>3. QED
        BY <2>1, <4>2, Zenon
    <3>3. QED
      BY <3>1, <3>2, Zenon
  <2>3. CASE s # Gateway
    <3>1. staged'[Gateway] = staged[Gateway] /\ cache'[Gateway] = cache[Gateway]
      BY <1>3, <2>3, Zenon DEF ReloadSection, TypeOK
    <3>2. QED
      BY <2>1, <2>3, <3>1, Zenon DEF Latest
  <2>4. QED
    BY <2>2, <2>3, Zenon
<1>4. CASE DrainPending
  <2>1. /\ UNCHANGED <<disk, bad, paths, batch, cache>>
        /\ staged'[Gateway] = 0 /\ drained'[Gateway] = staged[Gateway]
        /\ loop = "swapped"
    BY <1>4, Zenon DEF DrainPending, reloadVars
  <2>2. drained[Gateway] = 0
    BY <2>1, Zenon DEF Files, DrainedIsApplied
  <2>3. QED
    BY <2>1, <2>2, Zenon DEF Latest
<1>5. ASSUME NEW s \in Sections, UpdateSectionCache(s)
      PROVE  Taken'
  <2>1. UNCHANGED <<disk, bad, paths, batch, staged>> /\ drained[s] # 0
    BY <1>5, Zenon DEF UpdateSectionCache, reloadVars
  <2>2. /\ cache'[Gateway] = IF s = Gateway THEN drained[s] ELSE cache[Gateway]
        /\ drained'[Gateway] = IF s = Gateway THEN 0 ELSE drained[Gateway]
    BY <1>5, Zenon DEF UpdateSectionCache, TypeOK
  <2>3. QED
    BY <2>1, <2>2, Zenon DEF Latest
<1>6. CASE OnConfigFileChanged
  BY <1>6, Zenon DEF OnConfigFileChanged, configVars, loopVars, Latest
<1>7. CASE \/ RecvRestart \/ RecvForce \/ RecvCancel \/ RecvReady
           \/ BuildNewGateway \/ SwapAndNotify \/ RestartDone
  <2>1. UNCHANGED <<disk, bad, paths, batch, staged, cache, drained>>
    BY <1>7, Zenon DEF RecvRestart, RecvForce, RecvCancel, RecvReady, BuildNewGateway,
                SwapAndNotify, RestartDone, reloadVars, configVars
  <2>2. QED
    BY <2>1, Zenon DEF Latest
<1>8. CASE Outside
  <2>1. UNCHANGED <<reloadVars, configVars, drained>>
    BY <1>8, OutsideSteps, Zenon
  <2>2. QED
    BY <2>1, Zenon DEF reloadVars, configVars, Latest
<1>9. CASE UNCHANGED vars
  BY <1>9, Zenon DEF vars, reloadVars, configVars, loopVars, Latest
<1>10. QED
  BY <1>1, <1>2, <1>3, <1>4, <1>5, <1>6, <1>7, <1>8, <1>9, Zenon
     DEF Next, Reload, MainLoop, Outside

-----------------------------------------------------------------------------
\* The invariant is inductive.
LEMMA InvStep == Inv /\ [Next]_vars => Inv'
<1> SUFFICES ASSUME Inv, [Next]_vars
             PROVE  Inv'
  OBVIOUS
<1>1. TypeOK /\ Files /\ StagedIsUnderway /\ Taken /\ Rebuilt
  BY Zenon DEF Inv, Files
<1>2. TypeOK' /\ Files' /\ StagedIsUnderway' /\ Taken' /\ Rebuilt'
  BY <1>1, TypeStep, FilesStep, SignalsStep, TakenStep, RebuiltStep, Zenon
<1>3. QED
  BY <1>2, Zenon DEF Inv, Files

\* Every reachable state satisfies the inductive invariant.
THEOREM Invariance == Spec => []Inv
  BY InitInv, InvStep, PTL DEF Spec

\* Types, capacities of the channels, and that the state is Executing exactly
\* while the main loop rebuilds (RestartHandle, execute_gateway_restart).
THEOREM TypeCorrect == Spec => []TypeOK
<1>1. Inv => TypeOK
  BY Zenon DEF Inv
<1>2. QED
  BY <1>1, Invariance, PTL

\* A staged value is never forgotten by the chain from the reload thread to
\* the rebuild (dispatch_change, on_config_file_changed, run).
THEOREM StagedReachesRestart == Spec => []StagedIsUnderway
<1>1. Inv => StagedIsUnderway
  BY Zenon DEF Inv
<1>2. QED
  BY <1>1, Invariance, PTL

\* Only validated values reach the runtime configuration (reload_section,
\* stage_restart_value, apply_pending_restart).
THEOREM OnlyValidated == Spec => []RuntimeIsValidated
<1>1. Inv => RuntimeIsValidated
  BY Zenon DEF Inv, Validated, RuntimeIsValidated
<1>2. QED
  BY <1>1, Invariance, PTL

\* The gateway and the runtime configuration agree on gateway.json once
\* nothing is under way (build_new_gateway, apply_pending_restart).
THEOREM GatewayAgrees == Spec => []GatewayMatchesRuntime
<1>1. Inv => GatewayMatchesRuntime
  <2> SUFFICES ASSUME Inv, Settled, <<Gateway, disk[Gateway]>> \notin bad
               PROVE  built = cache[Gateway]
    BY Zenon DEF GatewayMatchesRuntime
  <2> USE ConstantsAssumption
  <2>1. staged[Gateway] = 0 /\ drained[Gateway] = 0
    BY Zenon DEF Inv, StagedIsUnderway, DrainedIsApplied, Settled
  <2>2. cache[Gateway] = disk[Gateway]
    BY <2>1, Zenon DEF Inv, Taken, Latest, Settled
  <2>3. built = disk[Gateway]
    BY Zenon DEF Inv, Rebuilt, Settled, Underway
  <2>4. QED
    BY <2>2, <2>3, Zenon
<1>2. QED
  BY <1>1, Invariance, PTL

\* Applying what was staged never takes a file back to an older version
\* (apply_pending_restart), accounts excepted.
THEOREM NeverBack == Spec => RuntimeNeverGoesBack
<1>1. Inv /\ [Next]_vars =>
        [\A s \in Sections \ Accounts : cache'[s] >= cache[s]]_cache
  <2> SUFFICES ASSUME Inv, [Next]_vars, NEW t \in Sections \ Accounts,
                      cache' # cache
               PROVE  cache'[t] >= cache[t]
    OBVIOUS
  <2>0. TypeOK /\ Ordered /\ cache[t] \in Nat /\ drained[t] \in Nat
    BY VersionsAreNumbers, Zenon DEF Inv
  <2>1. ASSUME NEW s \in Sections, ReloadSection(s)
        PROVE  cache'[t] >= cache[t]
    <3>1. s \in Accounts /\ cache' = [cache EXCEPT ![s] = disk[s]]
      BY <2>1, Zenon DEF ReloadSection
    <3>2. cache'[t] = cache[t]
      BY <2>0, <3>1, Zenon DEF TypeOK
    <3>3. QED
      BY <2>0, <3>2
  <2>2. ASSUME NEW s \in Sections, UpdateSectionCache(s)
        PROVE  cache'[t] >= cache[t]
    <3>1. cache'[t] = cache[t] \/ (cache'[t] = drained[t] /\ drained[t] # 0)
      BY <2>0, <2>2, Zenon DEF UpdateSectionCache, TypeOK
    <3>2. QED
      BY <2>0, <3>1 DEF Ordered
  <2>3. CASE UNCHANGED cache
    BY <2>3, Zenon
  <2>4. QED
    <3>1. CASE Outside
      BY <3>1, <2>3, OutsideSteps, Zenon DEF configVars
    <3>2. QED
      BY <2>1, <2>2, <2>3, <3>1, Zenon
         DEF Next, Reload, MainLoop, Outside, EditFile, DispatchBatch,
             OnConfigFileChanged, RecvRestart, RecvForce, RecvCancel, RecvReady,
             BuildNewGateway, SwapAndNotify, DrainPending, RestartDone, vars,
             configVars
<1>2. QED
  BY <1>1, Invariance, PTL DEF Spec, RuntimeNeverGoesBack

-----------------------------------------------------------------------------
(* Shutdown, with a state of its own.                                      *)

\* Where the tasks can be, relative to each other: the drain task runs only
\* inside Phase 1, no level is started before Phase 1 has ended, an escalation
\* runs only where signals are read.
ShutdownTasks ==
  /\ phase \in {"run", "notify"} => drain = "off" /\ asked # "late"
  /\ phase = "drain" => drain # "off" /\ asked # "late"
  /\ phase \notin {"run", "notify", "drain"} => drain = "done"
  /\ phase \in {"run", "notify", "drain"} =>
       stopModes = <<>> /\ stopping = NotStopping
  /\ Escalating => phase \in {"drain", "sessions"}

\* The state is one the gate rejects until the drain task has stored Stopped.
Gate == drain # "done" /\ phase # "run" => IsShuttingDown

\* Once something has been stopped forcefully, or a late escalation has been
\* granted, nothing can make a later level graceful.
Latched ==
  /\ asked = "late" => IsForceful
  /\ (\E i \in 1..Len(stopModes) : stopModes[i] = "Forceful")
       => IsForceful \/ mode = "Forceful"

ShutdownInv == ShutdownTypeOK /\ ShutdownTasks /\ Gate /\ Latched /\ StopModesMonotone

-----------------------------------------------------------------------------
\* The length of the history of levels is a number, whatever the state.
LEMMA AppendMode ==
  ASSUME NEW s \in Seq(Mode), NEW m \in Mode
  PROVE  /\ Append(s, m) \in Seq(Mode)
         /\ Len(Append(s, m)) = Len(s) + 1
         /\ Append(s, m)[Len(s) + 1] = m
         /\ \A i \in 1..Len(s) : Append(s, m)[i] = s[i]
  BY AppendProperties

\* Force-stopping the level in progress rewrites the last entry only.
LEMMA RewriteLast ==
  ASSUME NEW s \in Seq(Mode), Len(s) > 0
  PROVE  LET r == [s EXCEPT ![Len(s)] = "Forceful"]
         IN  /\ r \in Seq(Mode) /\ Len(r) = Len(s)
             /\ r[Len(s)] = "Forceful"
             /\ \A i \in 1..Len(s) : i # Len(s) => r[i] = s[i]
<1>1. Len(s) \in 1..Len(s) /\ "Forceful" \in Mode
  BY LenProperties DEF Mode
<1>2. QED
  BY <1>1, ExceptSeq

\* After the third phase the steps of the shutdown follow one another.
LEMMA LaterPhaseDoes ==
  ASSUME LaterPhase
  PROVE  /\ phase \in {"background", "persist", "closing"}
         /\ phase' \in {"persist", "closing", "exited"}
  BY DEF LaterPhase, NextPhase

-----------------------------------------------------------------------------
\* Every field keeps its type, and the history holds one entry for each level
\* started.
LEMMA ShutdownTypeStep ==
  ShutdownTypeOK /\ [ShutdownNext]_shutdownVars => ShutdownTypeOK'
<1> SUFFICES ASSUME ShutdownTypeOK, [ShutdownNext]_shutdownVars
             PROVE  ShutdownTypeOK'
  OBVIOUS
<1> USE ShutdownConstants
<1>1. CASE StartLevel
  <2>1. ResolveEffectiveMode \in Mode /\ ResolveEffectiveMode # NotStopping
    BY Zenon DEF ShutdownTypeOK, ResolveEffectiveMode, Mode, NotStopping
  <2>2. /\ stopModes' \in Seq(Mode)
        /\ Len(stopModes') = Len(stopModes) + 1
    BY <1>1, <2>1, AppendMode, Zenon DEF ShutdownTypeOK, StartLevel
  <2>3. Len(stopModes') = Levels - level' + 1 /\ stopping' # NotStopping
    BY <1>1, <2>1, <2>2 DEF ShutdownTypeOK, StartLevel
  <2>4. QED
    BY <1>1, <2>1, <2>2, <2>3 DEF ShutdownTypeOK, StartLevel
<1>2. CASE FinishLevel
  <2>1. Len(stopModes) = Levels - level + 1 /\ level \in 0..Levels
    BY <1>2, Zenon DEF ShutdownTypeOK, FinishLevel
  <2>2. Len(stopModes) > 0 /\ stopModes \in Seq(Mode)
    BY <2>1 DEF ShutdownTypeOK
  <2>3. stopModes' \in Seq(Mode) /\ Len(stopModes') = Len(stopModes)
    BY <1>2, <2>2, RewriteLast, Zenon DEF FinishLevel
  <2>4. level > 0
    BY <2>1, ShutdownConstants DEF ShutdownTypeOK
  <2>5. stopping' = NotStopping /\ level' = level - 1
    BY <1>2, Zenon DEF FinishLevel
  <2>6. level' \in 0..Levels /\ Len(stopModes') = Levels - level' /\ Len(stopModes') <= Levels
    BY <2>1, <2>3, <2>4, <2>5 DEF ShutdownTypeOK
  <2>7. QED
    BY <1>2, <2>3, <2>5, <2>6 DEF ShutdownTypeOK, FinishLevel
<1>3. CASE TurnStep
  BY <1>3, Zenon DEF ShutdownTypeOK, TurnStep, PassGate, CountTurn, EndTurn, Turn, stopVars
<1>4. ASSUME UNCHANGED stopVars, turn' = turn,
             esc' \in [try : 0..2, seen : ShutdownState], sent' \in 0..MaxSignals,
             phase' \in Phase, state' \in ShutdownState, drain' \in Drain,
             mode' \in Mode, why' \in {"none", "forceful", "idle", "timeout"},
             asked' \in {"no", "early", "late"}, restartPending' \in BOOLEAN,
             signal' \in BOOLEAN
      PROVE  ShutdownTypeOK'
  BY <1>4, Zenon DEF ShutdownTypeOK, stopVars
<1>5. CASE SendSignal \/ ToggleRestart \/ UNCHANGED shutdownVars
  <2>1. sent' \in 0..MaxSignals
    BY <1>5 DEF ShutdownTypeOK, SendSignal, ToggleRestart, shutdownVars
  <2>2. restartPending' \in BOOLEAN /\ signal' \in BOOLEAN
    BY <1>5, Zenon DEF ShutdownTypeOK, SendSignal, ToggleRestart, shutdownVars
  <2>3. UNCHANGED <<stopVars, turn, esc, phase, state, drain, mode, why, asked>>
    BY <1>5, Zenon DEF SendSignal, ToggleRestart, shutdownVars, stopVars
  <2> QED BY <1>4, <2>1, <2>2, <2>3, Zenon DEF ShutdownTypeOK
<1>6. CASE StartShutdownForSignal
  BY <1>4, <1>6, Zenon DEF ShutdownTypeOK, StartShutdownForSignal, ShutdownState, Phase, Mode,
     ModeOf
<1>7. \A n \in 0..2 : AfterLoad(n) \in [try : 0..2, seen : ShutdownState]
  BY DEF ShutdownTypeOK, AfterLoad, NoEsc, ShutdownState
<1>8. NoEsc \in [try : 0..2, seen : ShutdownState]
  BY DEF NoEsc, ShutdownState
<1>9. CASE EscalateLoad
  <2>1. esc' \in [try : 0..2, seen : ShutdownState]
    BY <1>7, <1>9 DEF EscalateLoad
  <2> QED BY <1>4, <1>9, <2>1, Zenon DEF ShutdownTypeOK, EscalateLoad, stopVars
<1>10. CASE EscalateExchange
  <2>1. esc' \in [try : 0..2, seen : ShutdownState]
    BY <1>7, <1>8, <1>10 DEF EscalateExchange
  <2> QED BY <1>4, <1>10, <2>1, Zenon DEF ShutdownTypeOK, EscalateExchange, ShutdownState
<1>11. CASE StartDrain \/ Phase1End \/ Subscribe \/ Phase2End
  <2>1. phase' \in Phase /\ drain' \in Drain /\ mode' \in Mode
    BY <1>11, Zenon DEF ShutdownTypeOK, StartDrain, Phase1End, Subscribe, Phase2End,
       Phase, Drain, Mode, ModeOf
  <2> QED BY <1>4, <1>11, <2>1, Zenon DEF ShutdownTypeOK, StartDrain, Phase1End, Subscribe,
             Phase2End
<1>13. CASE LaterPhase
  BY <1>4, <1>13, LaterPhaseDoes, Zenon DEF ShutdownTypeOK, LaterPhase, Phase
<1>12. CASE DrainTask
  BY <1>4, <1>12, Zenon DEF ShutdownTypeOK, DrainTask, WaitForDrain, StoreDraining, MarkStopped,
     ShutdownState, Drain
<1> QED
  BY <1>1, <1>2, <1>3, <1>5, <1>6, <1>9, <1>10, <1>11, <1>12, <1>13, Zenon
     DEF ShutdownNext, StopTask, MainTask

\* The relations between the tasks, and the closed gate, are kept.
LEMMA TasksStep == ShutdownInv /\ [ShutdownNext]_shutdownVars => ShutdownTasks' /\ Gate'
<1> SUFFICES ASSUME ShutdownInv, [ShutdownNext]_shutdownVars
             PROVE  ShutdownTasks' /\ Gate'
  OBVIOUS
<1> USE DEF ShutdownInv, ShutdownTasks, Gate, IsShuttingDown, Escalating, stopVars
<1>1. CASE StopTask
  BY <1>1, Zenon DEF StopTask, StartLevel, FinishLevel, StopsSessions
<1>2. CASE TurnStep
  BY <1>2, Zenon DEF TurnStep, PassGate, CountTurn, EndTurn
<1>3. CASE DrainTask
  BY <1>3, Zenon DEF DrainTask, WaitForDrain, StoreDraining, MarkStopped, ShutdownTypeOK, Phase
<1>4. CASE SendSignal \/ ToggleRestart \/ UNCHANGED shutdownVars
  BY <1>4, Zenon DEF SendSignal, ToggleRestart, shutdownVars
<1>5. CASE MainTask
  <2>1. CASE EscalateLoad \/ EscalateExchange
    BY <2>1, Zenon DEF EscalateLoad, EscalateExchange, AfterLoad, NoEsc
  <2>2. CASE StartShutdownForSignal \/ StartDrain
    BY <2>2, Zenon DEF StartShutdownForSignal, StartDrain
  <2>3. CASE Phase1End \/ Subscribe \/ Phase2End
    BY <2>3, Zenon DEF Phase1End, Subscribe, Phase2End
  <2>4. CASE LaterPhase
    BY <2>4, LaterPhaseDoes, Zenon DEF LaterPhase
  <2>5. QED
    BY <1>5, <2>1, <2>2, <2>3, <2>4, Zenon DEF MainTask
<1>6. QED
  BY <1>1, <1>2, <1>3, <1>4, <1>5, Zenon DEF ShutdownNext

\* What has been stopped forcefully stays so: the state is not overwritten once
\* the drain task is done, and the mode is not read again.
LEMMA LatchedStep ==
  ShutdownInv /\ [ShutdownNext]_shutdownVars => Latched' /\ StopModesMonotone'
<1> SUFFICES ASSUME ShutdownInv, [ShutdownNext]_shutdownVars
             PROVE  Latched' /\ StopModesMonotone'
  OBVIOUS
<1>1. CASE StartLevel
  <2>1. /\ ResolveEffectiveMode \in Mode
        /\ IsForceful \/ mode = "Forceful" <=> ResolveEffectiveMode = "Forceful"
    BY Zenon DEF ShutdownInv, ShutdownTypeOK, ResolveEffectiveMode, Mode
  <2>2. /\ Len(stopModes') = Len(stopModes) + 1 /\ Len(stopModes) \in Nat
        /\ stopModes'[Len(stopModes) + 1] = ResolveEffectiveMode
        /\ \A i \in 1..Len(stopModes) : stopModes'[i] = stopModes[i]
    BY <1>1, <2>1, AppendMode, LenProperties DEF ShutdownInv, ShutdownTypeOK, StartLevel
  <2>3. UNCHANGED <<asked, state, mode>> /\ (IsForceful' <=> IsForceful)
    BY <1>1, Zenon DEF StartLevel, IsForceful
  <2>4. Latched'
    BY <2>1, <2>2, <2>3 DEF ShutdownInv, Latched
  <2>5. StopModesMonotone'
    BY <2>1, <2>2 DEF ShutdownInv, Latched, StopModesMonotone
  <2>6. QED
    BY <2>4, <2>5, Zenon
<1>2. CASE FinishLevel
  <2>1. UNCHANGED <<asked, state, mode>> /\ (IsForceful' <=> IsForceful)
    BY <1>2, Zenon DEF FinishLevel, IsForceful
  <2>2. CASE UNCHANGED stopModes
    BY <2>1, <2>2, Zenon DEF ShutdownInv, Latched, StopModesMonotone
  <2>3. CASE /\ IsForceful
             /\ stopModes' = [stopModes EXCEPT ![Len(stopModes)] = "Forceful"]
    <3>1. Len(stopModes) > 0 /\ stopModes \in Seq(Mode)
      BY <1>2, ShutdownConstants DEF ShutdownInv, ShutdownTypeOK, FinishLevel
    <3>2. /\ Len(stopModes') = Len(stopModes) /\ Len(stopModes) \in Nat
          /\ stopModes'[Len(stopModes)] = "Forceful"
          /\ \A i \in 1..Len(stopModes) :
               i # Len(stopModes) => stopModes'[i] = stopModes[i]
      BY <2>3, <3>1, RewriteLast, LenProperties, Zenon
    <3>3. Latched'
      BY <2>1, <2>3, Zenon DEF ShutdownInv, Latched
    <3>4. ASSUME NEW i \in 1..Len(stopModes), NEW j \in 1..Len(stopModes),
                 i < j, stopModes'[i] = "Forceful"
          PROVE  stopModes'[j] = "Forceful"
      <4>1. i # Len(stopModes) /\ stopModes[i] = "Forceful"
        BY <3>2, <3>4
      <4>2. stopModes[j] = "Forceful"
        BY <3>4, <4>1, Zenon DEF ShutdownInv, StopModesMonotone
      <4>3. QED
        BY <3>2, <4>2, Zenon
    <3>5. StopModesMonotone'
      BY <3>2, <3>4, Zenon DEF StopModesMonotone
    <3>6. QED
      BY <3>3, <3>5, Zenon
  <2>4. QED
    BY <1>2, <2>2, <2>3, Zenon DEF FinishLevel
<1>3. CASE MainTask \/ DrainTask \/ SendSignal \/ ToggleRestart \/ TurnStep
       \/ UNCHANGED shutdownVars
  <2>1. UNCHANGED stopModes
    BY <1>3, Zenon DEF MainTask, DrainTask, SendSignal, ToggleRestart, shutdownVars, stopVars,
         StartShutdownForSignal, StartDrain, EscalateLoad, EscalateExchange,
         Phase1End, Subscribe, Phase2End, LaterPhase, WaitForDrain,
         StoreDraining, MarkStopped, TurnStep, PassGate, CountTurn, EndTurn
  <2>2. StopModesMonotone'
    BY <2>1, Zenon DEF ShutdownInv, StopModesMonotone
  <2>3. asked' = "late" => IsForceful'
    BY <1>3, Zenon
         DEF ShutdownInv, ShutdownTasks, Latched, IsForceful, ShutdownTypeOK, Phase, MainTask,
         DrainTask, SendSignal, ToggleRestart, shutdownVars,
         StartShutdownForSignal, StartDrain, EscalateLoad, EscalateExchange,
         Phase1End, Subscribe, Phase2End, LaterPhase, WaitForDrain,
         StoreDraining, MarkStopped, TurnStep, PassGate, CountTurn, EndTurn
  <2>4. ASSUME stopModes # <<>>
        PROVE  IsForceful \/ mode = "Forceful" => IsForceful' \/ mode' = "Forceful"
    BY <1>3, <2>4, Zenon
         DEF ShutdownInv, ShutdownTasks, IsForceful, MainTask, DrainTask, SendSignal,
         ToggleRestart, shutdownVars,
         StartShutdownForSignal, StartDrain, EscalateLoad, EscalateExchange,
         Phase1End, Subscribe, Phase2End, LaterPhase, WaitForDrain,
         StoreDraining, MarkStopped, TurnStep, PassGate, CountTurn, EndTurn
  <2>5. stopModes = <<>> => 1..Len(stopModes) = {}
    OBVIOUS
  <2>6. QED
    BY <2>1, <2>2, <2>3, <2>4, <2>5, Zenon DEF ShutdownInv, Latched
<1>4. QED
  BY <1>1, <1>2, <1>3, Zenon DEF ShutdownNext, StopTask

\* The invariant holds initially.
LEMMA ShutdownBegins ==
  ShutdownInit => ShutdownInv
<1> SUFFICES ASSUME ShutdownInit PROVE ShutdownInv
  OBVIOUS
<1>1. ShutdownTypeOK
  <2>1. /\ level \in 0..Levels /\ sent \in 0..MaxSignals
        /\ stopModes \in Seq(Mode) /\ Len(stopModes) = Levels - level
        /\ Len(stopModes) <= Levels
    BY ShutdownConstants DEF ShutdownInit
  <2>2. /\ esc \in [try : 0..2, seen : ShutdownState]
        /\ turn \in [Turns -> Turn]
    BY DEF ShutdownInit, NoEsc, ShutdownState, Turn
  <2>3. restartPending \in BOOLEAN /\ signal \in BOOLEAN
    BY Zenon DEF ShutdownInit
  <2>4. QED
    BY <2>1, <2>2, <2>3
         DEF ShutdownInit, ShutdownTypeOK, ShutdownState, Phase, Drain, Mode, NotStopping
<1>2. ShutdownTasks /\ Gate
  BY Zenon DEF ShutdownInit, ShutdownTasks, Gate, Escalating
<1>3. 1..Len(stopModes) = {}
  BY DEF ShutdownInit
<1>4. Latched /\ StopModesMonotone
  BY <1>3, Zenon DEF ShutdownInit, Latched, StopModesMonotone
<1>5. QED
  BY <1>1, <1>2, <1>4, Zenon DEF ShutdownInv

\* Shutdown keeps ShutdownInv in every behaviour.
LEMMA ShutdownInvHolds ==
  ShutdownSpec => []ShutdownInv
<1>1. ShutdownInv /\ [ShutdownNext]_shutdownVars => ShutdownInv'
  BY ShutdownTypeStep, TasksStep, LatchedStep, Zenon DEF ShutdownInv
<1>2. ShutdownInit => ShutdownInv
  BY ShutdownBegins, Zenon
<1>3. QED
  BY <1>1, <1>2, PTL DEF ShutdownSpec

-----------------------------------------------------------------------------
\* Type correctness, with the history counting the levels started.
THEOREM ShutdownTypes == ShutdownSpec => []ShutdownTypeOK
<1>1. ShutdownInv => ShutdownTypeOK
  BY Zenon DEF ShutdownInv
<1>2. QED
  BY <1>1, ShutdownInvHolds, PTL

\* stop_all_sessions never goes back from forceful to graceful.
THEOREM MonotoneStops == ShutdownSpec => []StopModesMonotone
<1>1. ShutdownInv => StopModesMonotone
  BY Zenon DEF ShutdownInv
<1>2. QED
  BY <1>1, ShutdownInvHolds, PTL

\* Every level started after an escalation granted in Phase 2 is forceful.
THEOREM LateEscalation == ShutdownSpec => LateEscalationHonoured
<1>1. ASSUME ShutdownInv, [ShutdownNext]_shutdownVars
      PROVE  [asked = "late" /\ Len(stopModes') > Len(stopModes)
               => stopModes'[Len(stopModes')] = "Forceful"]_shutdownVars
  <2>1. CASE StartLevel
    <3>1. ResolveEffectiveMode \in Mode
      BY <1>1, Zenon DEF ShutdownInv, ShutdownTypeOK, ResolveEffectiveMode, Mode
    <3>2. asked = "late" => ResolveEffectiveMode = "Forceful"
      BY <1>1, Zenon DEF ShutdownInv, Latched, ResolveEffectiveMode
    <3>3. stopModes'[Len(stopModes')] = ResolveEffectiveMode
      BY <1>1, <2>1, <3>1, AppendMode DEF ShutdownInv, ShutdownTypeOK, StartLevel
    <3>4. QED
      BY <3>2, <3>3, Zenon
  <2>2. CASE FinishLevel
    <3>1. Len(stopModes) > 0 /\ stopModes \in Seq(Mode)
      BY <1>1, <2>2, ShutdownConstants DEF ShutdownInv, ShutdownTypeOK, FinishLevel
    <3>2. Len(stopModes') = Len(stopModes) /\ Len(stopModes) \in Nat
      BY <2>2, <3>1, RewriteLast, LenProperties, Zenon DEF FinishLevel
    <3>3. QED
      BY <3>2
  <2>3. CASE MainTask \/ DrainTask \/ SendSignal \/ ToggleRestart \/ TurnStep
       \/ UNCHANGED shutdownVars
    <3>1. UNCHANGED stopModes
      BY <2>3, Zenon DEF MainTask, DrainTask, SendSignal, ToggleRestart, shutdownVars, stopVars,
         StartShutdownForSignal, StartDrain, EscalateLoad, EscalateExchange,
         Phase1End, Subscribe, Phase2End, LaterPhase, WaitForDrain,
         StoreDraining, MarkStopped, TurnStep, PassGate, CountTurn, EndTurn
    <3>2. Len(stopModes) \in Nat
      BY <1>1, LenProperties, Zenon DEF ShutdownInv, ShutdownTypeOK
    <3>3. QED
      BY <3>1, <3>2
  <2>4. QED
    BY <1>1, <2>1, <2>2, <2>3, Zenon DEF ShutdownNext, StopTask
<1>2. QED
  BY <1>1, ShutdownInvHolds, PTL DEF ShutdownSpec, LateEscalationHonoured

\* No turn passes the gate between the signal and the end of the drain.
THEOREM GateStaysClosed == ShutdownSpec => GateClosedDuringDrain
<1>1. ASSUME ShutdownInv, [ShutdownNext]_shutdownVars
      PROVE  [(\E t \in Turns : turn[t] = "idle" /\ turn'[t] = "passed")
               => phase = "run" \/ drain = "done"]_shutdownVars
  <2>1. CASE TurnStep
    <3>1. PICK u \in Turns : PassGate(u) \/ CountTurn(u) \/ EndTurn(u)
      BY <2>1, Zenon DEF TurnStep
    <3>2. CASE PassGate(u)
      BY <1>1, <3>2, Zenon DEF PassGate, ShutdownInv, Gate
    <3>3. CASE CountTurn(u) \/ EndTurn(u)
      BY <1>1, <3>3, Zenon DEF CountTurn, EndTurn, ShutdownInv, ShutdownTypeOK
    <3>4. QED
      BY <3>1, <3>2, <3>3, Zenon
  <2>2. CASE MainTask \/ DrainTask \/ SendSignal \/ ToggleRestart \/ StopTask
       \/ UNCHANGED shutdownVars
    <3>1. UNCHANGED turn
      BY <2>2, Zenon DEF MainTask, DrainTask, SendSignal, ToggleRestart, shutdownVars,
         StartShutdownForSignal, StartDrain, EscalateLoad, EscalateExchange,
         Phase1End, Subscribe, Phase2End, LaterPhase, WaitForDrain,
         StoreDraining, MarkStopped, StopTask, StartLevel, FinishLevel
    <3>2. QED
      BY <3>1, Zenon
  <2>3. QED
    BY <1>1, <2>1, <2>2, Zenon DEF ShutdownNext
<1>2. QED
  BY <1>1, ShutdownInvHolds, PTL DEF ShutdownSpec, GateClosedDuringDrain
=============================================================================
