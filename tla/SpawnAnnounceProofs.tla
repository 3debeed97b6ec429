------------------------- MODULE SpawnAnnounceProofs -------------------------
(***************************************************************************)
(* Proofs about SpawnAnnounce, for any number of children and timers, any  *)
(* tools of the sessions and any number of turns.                          *)
(***************************************************************************)
EXTENDS SpawnAnnounce, FiniteSetTheorems, TLAPS

Rec == [pc : PCs, s : Sessions \cup {None}, c : Sessions \cup {None}, k : SUBSET Children]

Announcers == Sessions \cup {Sweeper}

\* Where a process has a child to announce.
Announcing == {"mark", "reclaim", "unpushed", "recover", "cancel", "exit"}

-----------------------------------------------------------------------------
(* Steps of a process.                                                     *)

Moves(p) == \A q \in Processes \ {p} : proc'[q] = proc[q]

LEMMA ReadyIsRec == Ready \in Rec /\ \A pc \in PCs : [Ready EXCEPT !.pc = pc] \in Rec
  BY Zenon DEF Ready, Rec, PCs

LEMMA GotoMoves ==
  ASSUME proc \in [Processes -> Rec], NEW p \in Processes, NEW pc \in PCs, Goto(p, pc)
  PROVE  /\ proc' \in [Processes -> Rec] /\ Moves(p)
         /\ proc'[p].pc = pc /\ proc'[p].c = proc[p].c /\ proc'[p].s = proc[p].s
  BY Zenon DEF Goto, Rec, Moves

LEMMA MarkMoves ==
  ASSUME proc \in [Processes -> Rec], NEW p \in Processes, NEW c \in Sessions,
         proc' = [proc EXCEPT ![p].pc = "mark", ![p].c = c]
  PROVE  /\ proc' \in [Processes -> Rec] /\ Moves(p)
         /\ proc'[p].pc = "mark" /\ proc'[p].c = c
<1> DEFINE r == [proc[p] EXCEPT !.pc = "mark", !.c = c]
<1>1. r \in Rec /\ r.pc = "mark" /\ r.c = c
  BY Zenon DEF Rec, PCs
<1>2. proc' = [proc EXCEPT ![p] = r]
  BY Zenon
<1> HIDE DEF r
<1> QED BY <1>1, <1>2, Zenon DEF Moves

LEMMA SetMoves ==
  ASSUME proc \in [Processes -> Rec], NEW p \in Processes, NEW r \in Rec,
         proc' = [proc EXCEPT ![p] = r]
  PROVE  proc' \in [Processes -> Rec] /\ Moves(p) /\ proc'[p] = r
  BY Zenon DEF Moves

LEMMA ContinueMoves ==
  ASSUME proc \in [Processes -> Rec], NEW p \in Processes, Continue(p)
  PROVE  /\ proc' \in [Processes -> Rec] /\ Moves(p)
         /\ proc'[p].pc \in {"idle", "end"}
<1> DEFINE r == IF p = Sweeper THEN Ready ELSE [Ready EXCEPT !.pc = "end"]
<1>1. r \in Rec /\ r.pc \in {"idle", "end"}
  BY ReadyIsRec, Zenon DEF Ready, PCs
<1>2. proc' = [proc EXCEPT ![p] = r]
  BY Zenon DEF Continue
<1> HIDE DEF r
<1> QED BY <1>1, <1>2, SetMoves, Zenon

\* The abort of a timer.
LEMMA AbortMoves ==
  ASSUME proc \in [Processes -> Rec], NEW y
  PROVE  /\ Abort(y) \in [Processes -> Rec]
         /\ \A q \in Processes : Abort(y)[q] = IF q = y THEN Ready ELSE proc[q]
  BY ReadyIsRec, Zenon DEF Abort

LEMMA TimersApart ==
  \A y \in Timers \cup {None}, p \in Announcers : y # p /\ p \in Processes
<1>1. \A p \in Announcers : p \in Processes /\ p \in Children \cup {Root, Sweeper}
  BY Zenon DEF Announcers, Sessions, Processes
<1>2. \A p \in Children \cup {Root, Sweeper} : p \notin Timers
  BY SpawnAssumption, Zenon
<1>3. \A p \in Children \cup {Root} : p # None
  BY SpawnAssumption, Zenon
<1>4. Sweeper # None
  BY SpawnAssumption, Zenon
<1> QED BY <1>1, <1>2, <1>3, <1>4, Zenon

\* start_yield_timeout: timer y starts for s, the old one is aborted.
ArmStep(s, y) ==
  proc' = [Abort(yhandle[s]) EXCEPT ![s].pc = "reply",
                                    ![y] = [Ready EXCEPT !.pc = "armed", !.s = s]]

LEMMA ArmMoves ==
  ASSUME TypeOK, NEW s \in Sessions, NEW y \in Timers, ArmStep(s, y)
  PROVE  /\ proc' \in [Processes -> Rec]
         /\ proc'[s].pc = "reply"
         /\ proc'[y].pc = "armed" /\ proc'[y].s = s
         /\ \A q \in Processes \ {s, y} :
               proc'[q] = IF q = yhandle[s] THEN Ready ELSE proc[q]
<1> DEFINE A == Abort(yhandle[s])
           r == [Ready EXCEPT !.pc = "armed", !.s = s]
<1>1. A \in [Processes -> Rec] /\ \A q \in Processes : A[q] = IF q = yhandle[s] THEN Ready ELSE proc[q]
  BY AbortMoves, Zenon DEF TypeOK, Rec
<1>2. r \in Rec /\ r.pc = "armed" /\ r.s = s
  BY Zenon DEF Ready, Rec, PCs
<1>3. s \in Processes /\ y \in Processes /\ s # y
  BY TimersApart, Zenon DEF Announcers, Processes
<1> HIDE DEF A, r
<1>4. proc' = [A EXCEPT ![s].pc = "reply", ![y] = r]
  BY Zenon DEF A, r, ArmStep
<1>5. [A[s] EXCEPT !.pc = "reply"] \in Rec /\ [A[s] EXCEPT !.pc = "reply"].pc = "reply"
  BY <1>1, <1>3 DEF Rec, PCs
<1>6. /\ proc'[y] = r /\ proc'[s] = [A[s] EXCEPT !.pc = "reply"]
      /\ \A q \in Processes \ {s, y} : proc'[q] = A[q]
      /\ proc' \in [Processes -> Rec]
  BY <1>1, <1>2, <1>3, <1>4, <1>5, Zenon
<1> QED BY <1>1, <1>2, <1>5, <1>6

\* cancel_yield_timeout by announcer p: the timer of s is aborted.
LEMMA CancelMoves ==
  ASSUME TypeOK, NEW s \in Sessions, NEW p \in Announcers,
         proc' = [Abort(yhandle[s]) EXCEPT ![p].pc = "exit"]
  PROVE  /\ proc' \in [Processes -> Rec]
         /\ proc'[p].pc = "exit" /\ proc'[p].c = proc[p].c
         /\ \A q \in Processes \ {p} :
               proc'[q] = IF q = yhandle[s] THEN Ready ELSE proc[q]
<1> DEFINE A == Abort(yhandle[s])
<1>1. A \in [Processes -> Rec] /\ \A q \in Processes : A[q] = IF q = yhandle[s] THEN Ready ELSE proc[q]
  BY AbortMoves, Zenon DEF TypeOK, Rec
<1>2. p \in Processes /\ p # yhandle[s]
  BY TimersApart, Zenon DEF TypeOK
<1> HIDE DEF A
<1>3. proc' = [A EXCEPT ![p].pc = "exit"]
  BY Zenon DEF A
<1>4. /\ [A[p] EXCEPT !.pc = "exit"] \in Rec /\ [A[p] EXCEPT !.pc = "exit"].pc = "exit"
      /\ [A[p] EXCEPT !.pc = "exit"].c = A[p].c
  BY <1>1, <1>2, Zenon DEF Rec, PCs
<1>5. /\ proc'[p] = [A[p] EXCEPT !.pc = "exit"]
      /\ \A q \in Processes \ {p} : proc'[q] = A[q]
      /\ proc' \in [Processes -> Rec]
  BY <1>1, <1>2, <1>3, <1>4, Zenon
<1> QED BY <1>1, <1>2, <1>4, <1>5, Zenon

LEMMA DescendantsAreChildren ==
  ASSUME NEW c
  PROVE  list_descendants(c) \in SUBSET Children
<1>1. Children \in SUBSET Sessions
  BY Zenon DEF Sessions
<1>2. \A t : list_children(t) \subseteq Children
  BY Zenon DEF list_children
<1> QED BY <1>1, <1>2, Zenon DEF list_descendants, Closure

LEMMA KillMoves ==
  ASSUME proc \in [Processes -> Rec], NEW p \in Processes, NEW c \in Children,
         BeginKill(p, c)
  PROVE  proc' \in [Processes -> Rec] /\ Moves(p) /\ proc'[p].pc = "kill"
<1> DEFINE K == list_descendants(c)
<1>1. K \in SUBSET Children
  BY DescendantsAreChildren, Zenon
<1>2. proc' = [proc EXCEPT ![p].pc = "kill", ![p].c = c, ![p].k = K]
  BY Zenon DEF BeginKill
<1>3. c \in Sessions
  BY Zenon DEF Sessions
<1> DEFINE r == [proc[p] EXCEPT !.pc = "kill", !.c = c, !.k = K]
<1> HIDE DEF K
<1>4. r \in Rec /\ r.pc = "kill"
  BY <1>1, <1>3, Zenon DEF Rec, PCs
<1>5. proc' = [proc EXCEPT ![p] = r]
  BY <1>2, Zenon
<1> HIDE DEF r
<1> QED BY <1>4, <1>5, SetMoves, Zenon

-----------------------------------------------------------------------------
(* Type correctness.                                                       *)

LEMMA TypeInit == Init => TypeOK
<1> SUFFICES ASSUME Init PROVE TypeOK
  OBVIOUS
<1>1. proc \in [Processes -> Rec]
  BY ReadyIsRec, Zenon DEF Init
<1>2. left \in [Sessions -> Nat]
  BY SpawnAssumption, Zenon DEF Init, Sessions
<1>3. live \subseteq Sessions
  BY Zenon DEF Init, Sessions
<1> QED BY <1>1, <1>2, <1>3 DEF Init, TypeOK, Rec

LEMMA Finite == \A S \in SUBSET Children : IsFiniteSet(S) /\ Cardinality(S) \in Int
  BY SpawnAssumption, FS_Subset, FS_CardinalityType

LEMMA PushType ==
  ASSUME TypeOK, NEW c \in Children, PushAnnounce(c)
  PROVE  word' \in [Children -> {"none", "queued", "told"}]
  BY Zenon DEF TypeOK, PushAnnounce

LEMMA InjectType ==
  ASSUME TypeOK, NEW s, InjectInto(s)
  PROVE  word' \in [Children -> {"none", "queued", "told"}]
  BY Zenon DEF TypeOK, InjectInto

LEMMA DrainType ==
  ASSUME TypeOK, NEW s, Drain(s)
  PROVE  word' \in [Children -> {"none", "queued", "told"}] /\ spoke' \subseteq Children
<1>1. InjectInto(s) /\ (spoke' = spoke \/ spoke' = spoke \cup ({s} \cap live \cap Children))
  BY Zenon DEF Drain
<1> QED BY <1>1, InjectType, Zenon DEF TypeOK

\* Every step of a turn, an announcer, a timer, a kill and the sweeper.  Each
\* process that announces has a child, and the child a parent.
Announced ==
  \A p \in Announcers :
    proc[p].pc \in Announcing => proc[p].c \in Children /\ parent[proc[p].c] \in Sessions

TypeInv == TypeOK /\ Announced

LEMMA OneAnnounces ==
  ASSUME TypeInv, NEW p \in Processes, Moves(p),
         \A c \in Children : parent[c] \in Sessions => parent'[c] = parent[c],
         p \in Announcers /\ proc'[p].pc \in Announcing =>
           proc'[p].c \in Children /\ parent[proc'[p].c] \in Sessions
  PROVE  Announced'
  BY Zenon DEF TypeInv, Announced, Moves, Announcers, Processes

LEMMA TypeStep == TypeInv /\ [Next]_vars => TypeInv'
<1> SUFFICES ASSUME TypeInv, [Next]_vars
             PROVE  TypeInv'
  OBVIOUS
<1>t. TypeOK /\ Announced /\ proc \in [Processes -> Rec]
  BY Zenon DEF TypeInv, TypeOK, Rec
<1>p. Sessions \subseteq Processes /\ Timers \subseteq Processes /\ Sweeper \in Processes
  BY Zenon DEF Processes
<1>c. Children \subseteq Sessions
  BY Zenon DEF Sessions
<1> USE DEF state, turns, yields
<1>1. ASSUME NEW s \in Sessions, Begin(s) PROVE TypeInv'
  <2>1. /\ proc' \in [Processes -> Rec] /\ Moves(s) /\ proc'[s].pc = "llm"
    BY <1>1, <1>t, <1>p, GotoMoves, Zenon DEF Begin, PCs
  <2>2. left' \in [Sessions -> Nat]
    BY <1>1, <1>t DEF Begin, TypeOK
  <2>3. TypeOK'
    BY <1>1, <1>t, <2>1, <2>2, Zenon DEF Begin, TypeOK, Rec
  <2>4. Announced'
    BY <1>1, <1>p, <2>1, OneAnnounces, Zenon DEF Begin, Announcing
  <2> QED BY <2>3, <2>4, Zenon DEF TypeInv
<1>2. ASSUME NEW s \in Sessions, LlmReturns(s) PROVE TypeInv'
  <2>1. PICK pc \in {"tools", "errored"} : Goto(s, pc)
    BY <1>2, Zenon DEF LlmReturns
  <2>2. /\ proc' \in [Processes -> Rec] /\ Moves(s) /\ proc'[s].pc = pc
    BY <1>t, <1>p, <2>1, GotoMoves, Zenon DEF PCs
  <2>3. TypeOK'
    BY <1>2, <1>t, <2>2, Zenon DEF LlmReturns, TypeOK, Rec
  <2>4. Announced'
    BY <1>2, <1>p, <2>2, OneAnnounces, Zenon DEF LlmReturns, Announcing
  <2> QED BY <2>3, <2>4, Zenon DEF TypeInv
<1>3. ASSUME NEW s \in Sessions, NEW c \in Children, Spawn(s, c) PROVE TypeInv'
  <2>1. TypeOK'
    BY <1>3, <1>t, <1>c DEF Spawn, TypeOK
  <2>2. None \notin Sessions
    BY SpawnAssumption, Zenon DEF Sessions
  <2>3. \A d \in Children : parent[d] \in Sessions => parent'[d] = parent[d]
    BY <1>3, <1>t, <2>2, Zenon DEF Spawn, TypeOK
  <2>4. Announced'
    BY <1>3, <1>t, <2>3, Zenon DEF Spawn, Announced
  <2> QED BY <2>1, <2>4, Zenon DEF TypeInv
<1>4. ASSUME NEW s \in Sessions, Yield(s) PROVE TypeInv'
  <2>1. /\ proc' \in [Processes -> Rec] /\ Moves(s) /\ proc'[s].pc = "arm"
    BY <1>4, <1>t, <1>p, GotoMoves, Zenon DEF Yield, PCs
  <2>2. TypeOK'
    BY <1>4, <1>t, <2>1, Zenon DEF Yield, TypeOK, Rec
  <2>3. Announced'
    BY <1>4, <1>p, <2>1, OneAnnounces, Zenon DEF Yield, Announcing
  <2> QED BY <2>2, <2>3, Zenon DEF TypeInv
<1>5. ASSUME NEW s \in Sessions, Arm(s) PROVE TypeInv'
  <2>1. PICK y \in Timers :
          /\ proc' = [Abort(yhandle[s]) EXCEPT ![s].pc = "reply",
                                               ![y] = [Ready EXCEPT !.pc = "armed", !.s = s]]
          /\ yhandle' = [yhandle EXCEPT ![s] = y]
    BY <1>5, Zenon DEF Arm
  <2>2. /\ proc' \in [Processes -> Rec] /\ proc'[s].pc = "reply"
        /\ \A q \in Processes \ {s, y} :
              proc'[q] = IF q = yhandle[s] THEN Ready ELSE proc[q]
    <3>1. TypeOK /\ ArmStep(s, y)
      BY <1>t, <2>1, Zenon DEF ArmStep
    <3> QED BY <3>1, ArmMoves
  <2>3. TypeOK'
    BY <1>5, <1>t, <2>1, <2>2, Zenon DEF Arm, TypeOK, Rec
  <2>4. ASSUME NEW p \in Announcers, proc'[p].pc \in Announcing
        PROVE  proc'[p] = proc[p]
    <3>1. p \in Processes /\ p # y /\ p # yhandle[s] /\ p # s
      BY <1>t, <2>2, <2>4, TimersApart, Zenon DEF TypeOK, Announcing
    <3> QED BY <2>2, <3>1, Zenon
  <2>5. Announced'
    BY <1>5, <1>t, <2>4, Zenon DEF Arm, Announced
  <2> QED BY <2>3, <2>5, Zenon DEF TypeInv
<1>6. ASSUME NEW s \in Sessions, NEW answered \in SUBSET Sessions, NEW states,
             Announceable(s, answered, states)
      PROVE  s \in Children /\ parent[s] \in Sessions
  BY <1>6, <1>t, SpawnAssumption, Zenon DEF Announceable, TypeOK
<1>7. ASSUME NEW s \in Sessions, Reply(s) PROVE TypeInv'
  <2>1. spoke' \subseteq Children /\ spoke' \subseteq Sessions
    BY <1>7, <1>t, <1>c, Zenon DEF Reply, TypeOK
  <2>2. CASE Announceable(s, spoke', cstate)
    <3>1. proc' \in [Processes -> Rec] /\ Moves(s) /\ proc'[s].pc = "mark" /\ proc'[s].c = s
      BY <1>7, <1>t, <1>p, <2>2, MarkMoves, Zenon DEF Reply
    <3>2. TypeOK'
      BY <1>7, <1>t, <2>1, <3>1, Zenon DEF Reply, TypeOK, Rec
    <3>3. Announced'
      BY <1>6, <1>7, <1>p, <2>1, <2>2, <3>1, OneAnnounces, Zenon DEF Reply
    <3> QED BY <3>2, <3>3, Zenon DEF TypeInv
  <2>3. CASE ~Announceable(s, spoke', cstate)
    <3>1. proc' \in [Processes -> Rec] /\ Moves(s) /\ proc'[s].pc \in {"idle", "end"}
      BY <1>7, <1>t, <1>p, <2>3, ContinueMoves, Zenon DEF Reply
    <3>2. TypeOK'
      BY <1>7, <1>t, <2>1, <3>1, Zenon DEF Reply, TypeOK, Rec
    <3>3. Announced'
      BY <1>7, <1>p, <3>1, OneAnnounces, Zenon DEF Reply, Announcing
    <3> QED BY <3>2, <3>3, Zenon DEF TypeInv
  <2> QED BY <2>2, <2>3, Zenon
<1>8. ASSUME NEW s \in Sessions, Errored(s) PROVE TypeInv'
  <2>1. cstate' \in [Children -> {"none", "running"} \cup Terminal]
    BY <1>8, <1>t, Zenon DEF Errored, TypeOK, Terminal
  <2>2. CASE Announceable(s, spoke, cstate')
    <3>1. proc' \in [Processes -> Rec] /\ Moves(s) /\ proc'[s].pc = "mark" /\ proc'[s].c = s
      BY <1>8, <1>t, <1>p, <2>2, MarkMoves, Zenon DEF Errored
    <3>2. TypeOK'
      BY <1>8, <1>t, <2>1, <3>1, Zenon DEF Errored, TypeOK, Rec
    <3>3. spoke \subseteq Sessions
      BY <1>t, <1>c, Zenon DEF TypeOK
    <3>4. Announced'
      BY <1>6, <1>8, <1>p, <2>2, <3>1, <3>3, OneAnnounces, Zenon DEF Errored
    <3> QED BY <3>2, <3>4, Zenon DEF TypeInv
  <2>3. CASE ~Announceable(s, spoke, cstate')
    <3>1. proc' \in [Processes -> Rec] /\ Moves(s) /\ proc'[s].pc \in {"idle", "end"}
      BY <1>8, <1>t, <1>p, <2>3, ContinueMoves, Zenon DEF Errored
    <3>2. TypeOK'
      BY <1>8, <1>t, <2>1, <3>1, Zenon DEF Errored, TypeOK, Rec
    <3>3. Announced'
      BY <1>8, <1>p, <3>1, OneAnnounces, Zenon DEF Errored, Announcing
    <3> QED BY <3>2, <3>3, Zenon DEF TypeInv
  <2> QED BY <2>2, <2>3, Zenon
<1>a. ASSUME NEW p \in Announcers, proc[p].pc \in Announcing
      PROVE  proc[p].c \in Children /\ parent[proc[p].c] \in Sessions
  BY <1>a, <1>t, Zenon DEF Announced
<1>b. Announcers \subseteq Processes
  BY Zenon DEF Announcers, Processes
<1>9. ASSUME NEW p \in Announcers, Publish(p) PROVE TypeInv'
  <2>1. proc[p].c \in Children /\ parent[proc[p].c] \in Sessions
    BY <1>9, <1>a, Zenon DEF Publish, At, Announcing
  <2>2. PICK pc \in {"reclaim", "unpushed"} : Goto(p, pc)
    BY <1>9, Zenon DEF Publish
  <2>3. proc' \in [Processes -> Rec] /\ Moves(p) /\ proc'[p].c = proc[p].c
    BY <1>b, <1>t, <2>2, GotoMoves, Zenon DEF PCs
  <2>4. word' \in [Children -> {"none", "queued", "told"}]
    BY <1>9, <1>t, <2>1, PushType, Zenon DEF Publish
  <2>5. cstate' \in [Children -> {"none", "running"} \cup Terminal]
    BY <1>9, <1>t, Zenon DEF Publish, TypeOK, Terminal
  <2>6. TypeOK'
    BY <1>9, <1>t, <2>3, <2>4, <2>5, Zenon DEF Publish, TypeOK, Rec
  <2>7. Announced'
    BY <1>9, <1>b, <2>1, <2>3, OneAnnounces, Zenon DEF Publish
  <2> QED BY <2>6, <2>7, Zenon DEF TypeInv
<1>10. ASSUME NEW p \in Announcers, Reclaim(p) PROVE TypeInv'
  <2>1. proc[p].c \in Children /\ parent[proc[p].c] \in Sessions
    BY <1>10, <1>a, Zenon DEF Reclaim, At, Announcing
  <2>2. proc' \in [Processes -> Rec] /\ Moves(p) /\ proc'[p].c = proc[p].c
    BY <1>10, <1>b, <1>t, GotoMoves, Zenon DEF Reclaim, PCs
  <2>3. tree' \in [Children -> {"no", "active", "completed"}]
    BY <1>10, <1>t, Zenon DEF Reclaim, TypeOK
  <2>4. busy' \in Int /\ handle' \subseteq Children
    BY <1>10, <1>t DEF Reclaim, TypeOK
  <2>5. TypeOK'
    BY <1>10, <1>t, <2>2, <2>3, <2>4, Zenon DEF Reclaim, TypeOK, Rec
  <2>6. Announced'
    BY <1>10, <1>b, <2>1, <2>2, OneAnnounces, Zenon DEF Reclaim
  <2> QED BY <2>5, <2>6, Zenon DEF TypeInv
<1>11. ASSUME NEW p \in Announcers, Recover(p) PROVE TypeInv'
  <2>1. proc[p].c \in Children /\ parent[proc[p].c] \in Sessions
    BY <1>11, <1>a, Zenon DEF Recover, At, Announcing
  <2>2. /\ proc' \in [Processes -> Rec] /\ Moves(p)
        /\ proc'[p].pc \in Announcing => proc'[p].c = proc[p].c
    <3>1. CASE Goto(p, "cancel")
      BY <1>b, <1>t, <3>1, GotoMoves, Zenon DEF PCs
    <3>2. CASE Continue(p)
      BY <1>b, <1>t, <3>2, ContinueMoves, Zenon DEF Announcing
    <3> QED BY <1>11, <3>1, <3>2, Zenon DEF Recover
  <2>3. TypeOK'
    BY <1>11, <1>t, <2>2, Zenon DEF Recover, TypeOK, Rec
  <2>4. Announced'
    BY <1>11, <1>b, <2>1, <2>2, OneAnnounces, Zenon DEF Recover
  <2> QED BY <2>3, <2>4, Zenon DEF TypeInv
<1>12. ASSUME NEW p \in Announcers, Cancel(p) PROVE TypeInv'
  <2> DEFINE s == parent[proc[p].c]
  <2>1. proc[p].c \in Children /\ s \in Sessions
    BY <1>12, <1>a, Zenon DEF Cancel, At, Announcing
  <2>2. proc' = [Abort(yhandle[s]) EXCEPT ![p].pc = "exit"] /\ yhandle' = [yhandle EXCEPT ![s] = None]
    BY <1>12, Zenon DEF Cancel
  <2> HIDE DEF s
  <2>3. /\ proc' \in [Processes -> Rec] /\ proc'[p].c = proc[p].c
        /\ \A q \in Processes \ {p} :
              proc'[q] = IF q = yhandle[s] THEN Ready ELSE proc[q]
    BY <1>t, <2>1, <2>2, CancelMoves, Zenon
  <2>4. TypeOK'
    BY <1>12, <1>t, <2>2, <2>3, Zenon DEF Cancel, TypeOK, Rec
  <2>5. ASSUME NEW q \in Announcers, q # p
        PROVE  proc'[q] = proc[q]
    <3>1. q \in Processes /\ q # yhandle[s]
      BY <1>t, <2>1, TimersApart, Zenon DEF TypeOK
    <3> QED BY <2>3, <2>5, <3>1, Zenon
  <2>6. Announced'
    BY <1>12, <1>t, <2>1, <2>3, <2>5, Zenon DEF Cancel, Announced, s
  <2> QED BY <2>4, <2>6, Zenon DEF TypeInv
<1>13. ASSUME NEW p \in Announcers, Exit(p) PROVE TypeInv'
  <2>1. proc' \in [Processes -> Rec] /\ Moves(p) /\ proc'[p].pc \in {"idle", "end"}
    BY <1>13, <1>b, <1>t, ContinueMoves, Zenon DEF Exit
  <2>2. word' \in [Children -> {"none", "queued", "told"}] /\ spoke' \subseteq Children
    BY <1>13, <1>t, DrainType, Zenon DEF Exit
  <2>3. TypeOK'
    BY <1>13, <1>t, <2>1, <2>2, Zenon DEF Exit, TypeOK, Rec
  <2>4. Announced'
    BY <1>13, <1>b, <2>1, OneAnnounces, Zenon DEF Exit, Announcing
  <2> QED BY <2>3, <2>4, Zenon DEF TypeInv
<1>14. ASSUME NEW s \in Sessions, EndTurn(s) PROVE TypeInv'
  <2>1. proc' \in [Processes -> Rec] /\ Moves(s) /\ proc'[s].pc = "idle"
    BY <1>14, <1>p, <1>t, SetMoves, ReadyIsRec, Zenon DEF EndTurn, Ready
  <2>2. word' \in [Children -> {"none", "queued", "told"}]
    BY <1>14, <1>t, InjectType, Zenon DEF EndTurn, TypeOK
  <2>3. TypeOK'
    BY <1>14, <1>t, <2>1, <2>2, Zenon DEF EndTurn, TypeOK, Rec
  <2>4. Announced'
    BY <1>14, <1>p, <2>1, OneAnnounces, Zenon DEF EndTurn, Announcing
  <2> QED BY <2>3, <2>4, Zenon DEF TypeInv
<1>15. ASSUME NEW s \in Sessions, NEW c \in Children, Kill(s, c) PROVE TypeInv'
  <2>1. proc' \in [Processes -> Rec] /\ Moves(s) /\ proc'[s].pc = "kill"
    BY <1>15, <1>p, <1>t, KillMoves, Zenon DEF Kill
  <2>2. TypeOK'
    BY <1>15, <1>t, <2>1, Zenon DEF Kill, TypeOK, Rec
  <2>3. Announced'
    BY <1>15, <1>p, <2>1, OneAnnounces, Zenon DEF Kill, Announcing
  <2> QED BY <2>2, <2>3, Zenon DEF TypeInv
<1>16. ASSUME NEW y \in Timers, Fire(y) PROVE TypeInv'
  <2>1. proc' \in [Processes -> Rec] /\ Moves(y)
    <3>1. CASE Goto(y, "clear")
      BY <1>p, <1>t, <3>1, GotoMoves, Zenon DEF PCs
    <3>2. CASE proc' = [proc EXCEPT ![y] = Ready]
      BY <1>p, <1>t, <3>2, SetMoves, ReadyIsRec, Zenon
    <3> QED BY <1>16, <3>1, <3>2, Zenon DEF Fire
  <2>2. waiting' \subseteq Sessions /\ yhandle' \in [Sessions -> Timers \cup {None}]
    BY <1>16, <1>t, Zenon DEF Fire, TypeOK
  <2>3. TypeOK'
    BY <1>16, <1>t, <2>1, <2>2, Zenon DEF Fire, TypeOK, Rec
  <2>4. y \notin Announcers
    BY TimersApart, Zenon
  <2>5. Announced'
    BY <1>16, <1>p, <2>1, <2>4, OneAnnounces, Zenon DEF Fire
  <2> QED BY <2>3, <2>5, Zenon DEF TypeInv
<1>17. ASSUME NEW y \in Timers, TimerClear(y) PROVE TypeInv'
  <2>1. proc' \in [Processes -> Rec] /\ Moves(y)
    BY <1>17, <1>p, <1>t, SetMoves, ReadyIsRec, Zenon DEF TimerClear
  <2>2. word' \in [Children -> {"none", "queued", "told"}] /\ spoke' \subseteq Children
    BY <1>17, <1>t, DrainType, Zenon DEF TimerClear
  <2>3. TypeOK'
    BY <1>17, <1>t, <2>1, <2>2, Zenon DEF TimerClear, TypeOK, Rec
  <2>4. y \notin Announcers
    BY TimersApart, Zenon
  <2>5. Announced'
    BY <1>17, <1>p, <2>1, <2>4, OneAnnounces, Zenon DEF TimerClear
  <2> QED BY <2>3, <2>5, Zenon DEF TypeInv
<1>18. ASSUME NEW c \in Children, SpawnTimeout(c) PROVE TypeInv'
  <2>1. word' \in [Children -> {"none", "queued", "told"}]
    BY <1>18, <1>t, PushType, Zenon DEF SpawnTimeout
  <2>2. busy' \in Int
    <3>1. PICK n \in Int : busy' = busy - n
      BY <1>18, <1>t, Finite, Zenon DEF SpawnTimeout, TypeOK
    <3> QED BY <1>t, <3>1 DEF TypeOK
  <2>3. cstate' \in [Children -> {"none", "running"} \cup Terminal]
    BY <1>18, <1>t, Zenon DEF SpawnTimeout, TypeOK
  <2>4. TypeOK'
    BY <1>18, <1>t, <2>1, <2>2, <2>3, Zenon DEF SpawnTimeout, TypeOK
  <2>5. Announced'
    BY <1>18, <1>t, Zenon DEF SpawnTimeout, Announced
  <2> QED BY <2>4, <2>5, Zenon DEF TypeInv
<1>19. CASE Forget
  <2>1. word' \in [Children -> {"none", "queued", "told"}]
    BY <1>19, <1>t, Zenon DEF Forget, Dropped, TypeOK
  <2>2. TypeOK'
    BY <1>19, <1>t, <2>1, Zenon DEF Forget, TypeOK
  <2>3. Announced'
    BY <1>19, <1>t, Zenon DEF Forget, Announced
  <2> QED BY <2>2, <2>3, Zenon DEF TypeInv
<1>20. ASSUME NEW C PROVE remove_descendant_entries(C) \in [Children -> {"no", "active", "completed"}]
  BY <1>t, Zenon DEF remove_descendant_entries, TypeOK
<1>21. CASE SweepReclaim
  <2>1. tree' \in [Children -> {"no", "active", "completed"}]
    BY <1>20, <1>21, Zenon DEF SweepReclaim
  <2>2. TypeOK'
    BY <1>21, <1>t, <2>1, Zenon DEF SweepReclaim, TypeOK
  <2>3. Announced'
    BY <1>21, <1>t, Zenon DEF SweepReclaim, Announced
  <2> QED BY <2>2, <2>3, Zenon DEF TypeInv
<1>22. ASSUME NEW c \in Children, SweepChild(c) PROVE TypeInv'
  <2>1. CASE tree' = remove_descendant_entries({c}) /\ UNCHANGED proc
    <3>1. TypeOK'
      BY <1>20, <1>22, <1>t, <2>1, Zenon DEF SweepChild, TypeOK
    <3>2. Announced'
      BY <1>22, <1>t, <2>1, Zenon DEF SweepChild, Announced
    <3> QED BY <3>1, <3>2, Zenon DEF TypeInv
  <2>2. CASE /\ Announceable(c, spoke, cstate) /\ UNCHANGED tree
             /\ proc' = [proc EXCEPT ![Sweeper].pc = "mark", ![Sweeper].c = c]
    <3>1. /\ proc' \in [Processes -> Rec] /\ Moves(Sweeper)
          /\ proc'[Sweeper].pc = "mark" /\ proc'[Sweeper].c = c
      BY <1>c, <1>p, <1>t, <2>2, MarkMoves, Zenon
    <3>2. TypeOK'
      BY <1>22, <1>t, <2>2, <3>1, Zenon DEF SweepChild, TypeOK, Rec
    <3>3. parent[c] \in Sessions
      BY <1>t, <2>2, Zenon DEF Announceable, TypeOK
    <3>4. Announced'
      BY <1>22, <1>p, <3>1, <3>3, OneAnnounces, Zenon DEF SweepChild
    <3> QED BY <3>2, <3>4, Zenon DEF TypeInv
  <2>3. CASE BeginKill(Sweeper, c) /\ UNCHANGED tree
    <3>1. proc' \in [Processes -> Rec] /\ Moves(Sweeper) /\ proc'[Sweeper].pc = "kill"
      BY <1>p, <1>t, <2>3, KillMoves, Zenon
    <3>2. TypeOK'
      BY <1>22, <1>t, <2>3, <3>1, Zenon DEF SweepChild, TypeOK, Rec
    <3>3. Announced'
      BY <1>22, <1>p, <3>1, OneAnnounces, Zenon DEF SweepChild, Announcing
    <3> QED BY <3>2, <3>3, Zenon DEF TypeInv
  <2> QED BY <1>22, <2>1, <2>2, <2>3, Zenon DEF SweepChild
<1>23. ASSUME NEW p \in Announcers, KillNext(p) PROVE TypeInv'
  <2> DEFINE last == proc[p].k = {}
             v == IF last THEN proc[p].c
                  ELSE CHOOSE d \in proc[p].k : list_children(d) \cap proc[p].k = {}
             S == IF v \in live THEN Stopped(v) ELSE {}
             known == parent[v] \in live /\ (last \/ InTree(v))
             off == Cleared(S) \cup (IF known THEN {v} ELSE {})
  <2>1. /\ At(p, "kill")
        /\ cstate' = [c \in Children |-> IF c \in off THEN "none" ELSE cstate[c]]
        /\ handle' = handle \ off
        /\ busy' = busy - Cardinality(handle \cap Cleared(S)) - (IF known THEN 1 ELSE 0)
        /\ llm' = llm \ S /\ live' = live \ {v} /\ waiting' = waiting \ {v}
        /\ word' = IF last /\ p = Sweeper /\ parent[v] \in live
                   THEN [Dropped(v) EXCEPT ![v] = "queued"] ELSE Dropped(v)
        /\ tree' = [c \in Children |->
                       IF c = v \/ (~ last /\ parent[c] = v) THEN "no" ELSE tree[c]]
        /\ proc' = [proc EXCEPT ![p] =
                       IF ~ last THEN [proc[p] EXCEPT !.k = @ \ {v}]
                       ELSE IF p = Sweeper THEN Ready
                       ELSE [proc[p] EXCEPT !.pc = "reply", !.c = None]]
        /\ UNCHANGED <<parent, spoke, yhandle, armed, left>>
    BY <1>23, Zenon DEF KillNext
  <2> HIDE DEF last, v, S, known, off
  <2> DEFINE r == IF ~ last THEN [proc[p] EXCEPT !.k = @ \ {v}]
                  ELSE IF p = Sweeper THEN Ready
                  ELSE [proc[p] EXCEPT !.pc = "reply", !.c = None]
  <2>2. proc[p] \in Rec /\ proc[p].pc = "kill"
    BY <1>b, <1>t, <2>1, Zenon DEF At
  <2>3. r \in Rec /\ r.pc \in {"kill", "idle", "reply"}
    <3>1. [proc[p] EXCEPT !.k = @ \ {v}] \in Rec /\ [proc[p] EXCEPT !.k = @ \ {v}].pc = "kill"
      BY <2>2, Zenon DEF Rec
    <3>2. /\ [proc[p] EXCEPT !.pc = "reply", !.c = None] \in Rec
          /\ [proc[p] EXCEPT !.pc = "reply", !.c = None].pc = "reply"
      BY <2>2, Zenon DEF Rec, PCs
    <3>3. Ready \in Rec /\ Ready.pc = "idle"
      BY ReadyIsRec, Zenon DEF Ready
    <3> QED BY <3>1, <3>2, <3>3, Zenon
  <2>4. proc' = [proc EXCEPT ![p] = r]
    BY <2>1, Zenon
  <2> HIDE DEF r
  <2>5. proc' \in [Processes -> Rec] /\ Moves(p) /\ proc'[p].pc \in {"kill", "idle", "reply"}
    BY <1>b, <1>t, <2>3, <2>4, SetMoves, Zenon
  <2>6. word' \in [Children -> {"none", "queued", "told"}]
    <3>1. Dropped(v) \in [Children -> {"none", "queued", "told"}]
      BY <1>t, Zenon DEF Dropped, TypeOK
    <3>2. [Dropped(v) EXCEPT ![v] = "queued"] \in [Children -> {"none", "queued", "told"}]
      BY <3>1, Zenon
    <3> QED BY <2>1, <3>1, <3>2, Zenon
  <2>7. busy' \in Int
    <3>1. handle \cap Cleared(S) \in SUBSET Children
      BY <1>t, Zenon DEF TypeOK
    <3>2. Cardinality(handle \cap Cleared(S)) \in Int
      BY <3>1, Finite, Zenon
    <3> QED BY <1>t, <2>1, <3>2 DEF TypeOK
  <2>8. /\ cstate' \in [Children -> {"none", "running"} \cup Terminal]
        /\ tree' \in [Children -> {"no", "active", "completed"}]
    BY <1>t, <2>1, Zenon DEF TypeOK
  <2>9. TypeOK'
    BY <1>t, <2>1, <2>5, <2>6, <2>7, <2>8, Zenon DEF TypeOK, Rec
  <2>10. Announced'
    BY <1>b, <2>1, <2>5, OneAnnounces, Zenon DEF Announcing
  <2> QED BY <2>9, <2>10, Zenon DEF TypeInv
<1>24. CASE UNCHANGED vars
  BY <1>24, Zenon DEF vars, TypeInv, TypeOK, Announced
<1> QED
  BY <1>1, <1>2, <1>3, <1>4, <1>5, <1>7, <1>8, <1>9, <1>10, <1>11, <1>12, <1>13,
     <1>14, <1>15, <1>16, <1>17, <1>18, <1>19, <1>21, <1>22, <1>23, <1>24, Zenon
  DEF Next, Turn, Announcer, Timer, Sweep, Announcers

\* The variables keep their types, whatever interleaving of turns, announcers,
\* timers and the sweeper.
THEOREM TypeCorrect == Spec => []TypeOK
<1>1. Init => TypeInv
  <2>1. Init => \A p \in Announcers : proc[p].pc = "idle"
    BY DEF Init, Ready, Announcers, Processes
  <2> QED BY <2>1, TypeInit, Zenon DEF TypeInv, Announced, Announcing
<1>2. TypeInv => TypeOK
  BY Zenon DEF TypeInv
<1> QED
  BY <1>1, <1>2, TypeStep, PTL DEF Spec

-----------------------------------------------------------------------------
(* A session that waits is guarded.                                        *)

\* A handle in yield_timeout_handles is that of a running timer of the session;
\* and a session that waits has not been forgotten, so that its timer, when it
\* fires, finds it.
Handles ==
  /\ waiting \subseteq live
  /\ \A s \in Sessions : yhandle[s] # None =>
        proc[yhandle[s]].pc \in {"armed", "clear"} /\ proc[yhandle[s]].s = s

GuardInv == TypeInv /\ Handles /\ WaitingIsGuarded

\* The steps that leave the timers, the turns about to start one and the
\* announcers about to end a wait alone.
LEMMA GuardFrame ==
  ASSUME GuardInv, NEW p \in Announcers, Moves(p),
         proc'[p] = proc[p] \/ proc[p].pc \notin {"arm", "exit"},
         UNCHANGED yhandle, waiting' \subseteq waiting, waiting' \subseteq live',
         \A c \in Children : parent[c] \in Sessions => parent'[c] = parent[c]
  PROVE  Handles' /\ WaitingIsGuarded'
<1>t. TypeOK /\ Announced /\ Handles /\ WaitingIsGuarded
  BY Zenon DEF GuardInv, TypeInv
<1>1. \A y \in Timers : proc'[y] = proc[y]
  BY TimersApart, Zenon DEF Moves, Processes
<1>2. Handles'
  <2>1. \A s \in Sessions : yhandle[s] # None => yhandle[s] \in Timers
    BY <1>t, Zenon DEF TypeOK
  <2> QED BY <1>t, <1>1, <2>1, Zenon DEF Handles
<1>3. ASSUME NEW s \in waiting'
      PROVE  \/ \E y \in Timers : At(y, "armed")' /\ proc'[y].s = s
             \/ At(s, "arm")'
             \/ \E q \in Announcers : At(q, "exit")' /\ parent'[proc'[q].c] = s
  <2>0. s \in waiting /\ s \in Sessions
    BY <1>t, Zenon DEF TypeOK
  <2>1. CASE \E y \in Timers : At(y, "armed") /\ proc[y].s = s
    BY <1>1, <2>1, Zenon DEF At
  <2>2. CASE At(s, "arm")
    <3>1. s \in Processes
      BY <2>0, Zenon DEF Processes
    <3>2. proc'[s] = proc[s]
      BY <2>2, <3>1, Zenon DEF Moves, At
    <3> QED BY <2>2, <3>2, Zenon DEF At
  <2>3. CASE \E q \in Announcers : At(q, "exit") /\ parent[proc[q].c] = s
    <3>1. PICK q \in Announcers : At(q, "exit") /\ parent[proc[q].c] = s
      BY <2>3, Zenon
    <3>2. proc[q].c \in Children
      BY <1>t, <3>1, Zenon DEF Announced, Announcing, At
    <3>3. proc'[q] = proc[q]
      BY <3>1, TimersApart, Zenon DEF Moves, At
    <3> QED BY <2>0, <3>1, <3>2, <3>3, Zenon DEF At
  <2> QED BY <1>t, <2>0, <2>1, <2>2, <2>3, Zenon DEF WaitingIsGuarded, Announcers
<1> QED BY <1>2, <1>3, Zenon DEF WaitingIsGuarded, Announcers

LEMMA GuardStep == GuardInv /\ [Next]_vars => GuardInv'
<1> SUFFICES ASSUME GuardInv, [Next]_vars
             PROVE  Handles' /\ WaitingIsGuarded'
  BY TypeStep, Zenon DEF GuardInv
<1>t. TypeOK /\ Announced /\ Handles /\ WaitingIsGuarded /\ proc \in [Processes -> Rec]
  BY Zenon DEF GuardInv, TypeInv, TypeOK, Rec
<1>w. waiting \subseteq live
  BY <1>t, Zenon DEF Handles
<1>p. Announcers \subseteq Processes /\ Sessions \subseteq Announcers /\ Sweeper \in Announcers
      /\ Timers \subseteq Processes
  BY Zenon DEF Announcers, Processes
<1>c. Children \subseteq Sessions
  BY Zenon DEF Sessions
<1> USE DEF state, turns, yields
<1>1. ASSUME NEW s \in Sessions, Begin(s) \/ LlmReturns(s) \/ Reply(s) \/ Errored(s)
                                 \/ EndTurn(s) \/ (\E c \in Children : Kill(s, c))
      PROVE  Handles' /\ WaitingIsGuarded'
  <2>1. Moves(s)
    <3>1. \A pc : Goto(s, pc) => Moves(s)
      BY <1>t, Zenon DEF Goto, Moves
    <3>2. Continue(s) => Moves(s)
      BY <1>t, Zenon DEF Continue, Moves
    <3>3. proc' = [proc EXCEPT ![s].pc = "mark", ![s].c = s] => Moves(s)
      BY <1>t, Zenon DEF Moves
    <3>4. proc' = [proc EXCEPT ![s] = Ready] => Moves(s)
      BY <1>t, Zenon DEF Moves
    <3>5. \A c \in Children : BeginKill(s, c) => Moves(s)
      BY <1>t, <1>p, KillMoves, Zenon
    <3> QED BY <1>1, <3>1, <3>2, <3>3, <3>4, <3>5, Zenon
        DEF Begin, LlmReturns, Reply, Errored, EndTurn, Kill
  <2>2. proc[s].pc \notin {"arm", "exit"}
    BY <1>1, Zenon DEF Begin, LlmReturns, Reply, Errored, EndTurn, Kill, At
  <2>3. UNCHANGED <<yhandle, waiting, live, parent>>
    BY <1>1, Zenon DEF Begin, LlmReturns, Reply, Errored, EndTurn, Kill
  <2> QED BY <1>p, <1>w, <2>1, <2>2, <2>3, GuardFrame, Zenon
<1>2. ASSUME NEW p \in Announcers, Publish(p) \/ Reclaim(p) \/ Recover(p)
      PROVE  Handles' /\ WaitingIsGuarded'
  <2>1. Moves(p)
    <3>1. \A pc : Goto(p, pc) => Moves(p)
      BY <1>t, Zenon DEF Goto, Moves
    <3>2. Continue(p) => Moves(p)
      BY <1>t, Zenon DEF Continue, Moves
    <3> QED BY <1>2, <3>1, <3>2, Zenon DEF Publish, Reclaim, Recover
  <2>2. proc[p].pc \notin {"arm", "exit"}
    BY <1>2, Zenon DEF Publish, Reclaim, Recover, At
  <2>3. UNCHANGED <<yhandle, waiting, live, parent>>
    BY <1>2, Zenon DEF Publish, Reclaim, Recover
  <2> QED BY <1>w, <2>1, <2>2, <2>3, GuardFrame, Zenon
<1>3. ASSUME NEW s \in Sessions, NEW c \in Children, Spawn(s, c)
      PROVE  Handles' /\ WaitingIsGuarded'
  <2>1. None \notin Sessions
    BY SpawnAssumption, Zenon DEF Sessions
  <2>2. \A d \in Children : parent[d] \in Sessions => parent'[d] = parent[d]
    BY <1>3, <1>t, <2>1, Zenon DEF Spawn, TypeOK
  <2>3. UNCHANGED <<yhandle, waiting, proc>> /\ live \subseteq live'
    BY <1>3, Zenon DEF Spawn
  <2>4. Moves(Sweeper)
    BY <2>3, Zenon DEF Moves
  <2> QED BY <1>p, <1>w, <2>2, <2>3, <2>4, GuardFrame, Zenon
<1>3a. ASSUME UNCHANGED <<yhandle, waiting, parent, proc>>, waiting \subseteq live'
      PROVE  Handles' /\ WaitingIsGuarded'
  <2>1. Moves(Sweeper)
    BY <1>3a, Zenon DEF Moves
  <2> QED BY <1>p, <1>3a, <2>1, GuardFrame, Zenon
<1>4. ASSUME NEW c \in Children, SpawnTimeout(c)
      PROVE  Handles' /\ WaitingIsGuarded'
  <2>1. UNCHANGED <<yhandle, waiting, parent, proc, live>>
    BY <1>4, Zenon DEF SpawnTimeout
  <2> QED BY <1>3a, <1>w, <2>1, Zenon
<1>4a. CASE SweepReclaim
  <2>1. UNCHANGED <<yhandle, waiting, parent, proc, live>>
    BY <1>4a, Zenon DEF SweepReclaim
  <2> QED BY <1>3a, <1>w, <2>1, Zenon
<1>4b. CASE Forget
  <2>1. UNCHANGED <<yhandle, waiting, parent, proc>> /\ live' = live \ {Root} /\ Root \notin waiting
    BY <1>4b, Zenon DEF Forget, Idle
  <2> QED BY <1>3a, <1>w, <2>1, Zenon
<1>5. ASSUME NEW c \in Children, SweepChild(c)
      PROVE  Handles' /\ WaitingIsGuarded'
  <2>1. UNCHANGED <<yhandle, waiting, parent, live>> /\ proc[Sweeper].pc = "idle"
    BY <1>5, Zenon DEF SweepChild, At
  <2>2. Moves(Sweeper)
    <3>1. proc' = [proc EXCEPT ![Sweeper].pc = "mark", ![Sweeper].c = c] => Moves(Sweeper)
      BY <1>t, Zenon DEF Moves
    <3>2. BeginKill(Sweeper, c) => Moves(Sweeper)
      BY <1>t, <1>p, KillMoves, Zenon
    <3>3. proc' = proc => Moves(Sweeper)
      BY Zenon DEF Moves
    <3> QED BY <1>5, <3>1, <3>2, <3>3, Zenon DEF SweepChild
  <2> QED BY <1>p, <1>w, <2>1, <2>2, GuardFrame, Zenon
<1>6. ASSUME NEW p \in Announcers, KillNext(p)
      PROVE  Handles' /\ WaitingIsGuarded'
  <2> DEFINE last == proc[p].k = {}
             v == IF last THEN proc[p].c
                  ELSE CHOOSE d \in proc[p].k : list_children(d) \cap proc[p].k = {}
             r == IF ~ last THEN [proc[p] EXCEPT !.k = @ \ {v}]
                  ELSE IF p = Sweeper THEN Ready
                  ELSE [proc[p] EXCEPT !.pc = "reply", !.c = None]
  <2>1. /\ At(p, "kill") /\ UNCHANGED <<parent, yhandle>>
        /\ live' = live \ {v} /\ waiting' = waiting \ {v}
        /\ proc' = [proc EXCEPT ![p] = r]
    BY <1>6, Zenon DEF KillNext
  <2> HIDE DEF last, v, r
  <2>2. Moves(p)
    BY <1>t, <2>1, Zenon DEF Moves
  <2> QED BY <1>w, <2>1, <2>2, GuardFrame, Zenon DEF At
<1>7. ASSUME NEW s \in Sessions, Yield(s)
      PROVE  Handles' /\ WaitingIsGuarded'
  <2>1. /\ Moves(s) /\ proc'[s].pc = "arm" /\ proc[s].pc = "tools"
        /\ UNCHANGED <<yhandle, live, parent>> /\ s \in live /\ waiting' = waiting \cup {s}
    BY <1>7, <1>t, <1>p, GotoMoves, Zenon DEF Yield, PCs, At
  <2>2. \A y \in Timers \cup {None} : y # s
    BY <1>p, TimersApart, Zenon
  <2>3. \A q \in Processes \ {s} : proc'[q] = proc[q]
    BY <2>1, Zenon DEF Moves
  <2>4. Handles'
    <3>1. \A r \in Sessions : yhandle[r] # None => yhandle[r] \in Processes \ {s}
      BY <1>t, <1>p, <2>2, Zenon DEF TypeOK
    <3>2. waiting' \subseteq live'
      BY <1>t, <2>1, Zenon DEF Handles
    <3>3. ASSUME NEW r \in Sessions, yhandle'[r] # None
          PROVE  proc'[yhandle'[r]].pc \in {"armed", "clear"} /\ proc'[yhandle'[r]].s = r
      <4>1. yhandle'[r] = yhandle[r] /\ proc'[yhandle[r]] = proc[yhandle[r]]
        BY <2>1, <2>3, <3>1, <3>3, Zenon
      <4>2. proc[yhandle[r]].pc \in {"armed", "clear"} /\ proc[yhandle[r]].s = r
        BY <1>t, <3>3, <4>1, Zenon DEF Handles
      <4> QED BY <4>1, <4>2, Zenon
    <3> QED BY <3>2, <3>3, Zenon DEF Handles
  <2>5. ASSUME NEW r \in waiting, r # s
        PROVE  \/ \E y \in Timers : At(y, "armed")' /\ proc'[y].s = r
               \/ At(r, "arm")'
               \/ \E q \in Announcers : At(q, "exit")' /\ parent'[proc'[q].c] = r
    <3>1. CASE \E y \in Timers : At(y, "armed") /\ proc[y].s = r
      BY <1>p, <2>2, <2>3, <3>1, Zenon DEF At
    <3>2. CASE At(r, "arm")
      <4>1. r \in Processes
        BY <1>t, <1>p, Zenon DEF TypeOK
      <4> QED BY <2>3, <2>5, <3>2, <4>1, Zenon DEF At
    <3>3. CASE \E q \in Announcers : At(q, "exit") /\ parent[proc[q].c] = r
      BY <1>p, <2>1, <2>3, <3>3, Zenon DEF At
    <3> QED BY <1>t, <3>1, <3>2, <3>3, Zenon DEF WaitingIsGuarded, Announcers
  <2> QED BY <2>1, <2>4, <2>5, Zenon DEF WaitingIsGuarded, Announcers, At
<1>8. ASSUME NEW s \in Sessions, Arm(s)
      PROVE  Handles' /\ WaitingIsGuarded'
  <2>1. PICK y \in Timers :
          /\ Abort(yhandle[s])[y].pc = "idle"
          /\ proc' = [Abort(yhandle[s]) EXCEPT ![s].pc = "reply",
                                               ![y] = [Ready EXCEPT !.pc = "armed", !.s = s]]
          /\ yhandle' = [yhandle EXCEPT ![s] = y]
    BY <1>8, Zenon DEF Arm
  <2>a. TypeOK /\ ArmStep(s, y)
    BY <1>t, <2>1, Zenon DEF ArmStep
  <2>2. /\ proc'[y].pc = "armed" /\ proc'[y].s = s
        /\ \A q \in Processes \ {s, y} :
              proc'[q] = IF q = yhandle[s] THEN Ready ELSE proc[q]
    BY <2>a, ArmMoves
  <2>3. proc[s].pc = "arm" /\ UNCHANGED <<live, waiting, parent>>
    BY <1>8, Zenon DEF Arm, At
  <2>4. y = yhandle[s] \/ proc[y].pc = "idle"
    BY <1>t, <1>p, <2>1, AbortMoves, Zenon
  <2>5. \A z \in Timers \cup {None}, p \in Announcers : z # p
    BY TimersApart, Zenon
  <2>6. ASSUME NEW r \in Sessions, r # s, yhandle[r] # None
        PROVE  yhandle[r] \in Processes /\ proc'[yhandle[r]] = proc[yhandle[r]]
    <3>1. yhandle[r] \in Timers /\ yhandle[s] \in Timers \cup {None}
      BY <1>t, <2>6, Zenon DEF TypeOK
    <3>2. proc[yhandle[r]].pc # "idle" /\ proc[yhandle[r]].s = r
      BY <1>t, <2>6, Zenon DEF Handles
    <3>3. yhandle[r] # yhandle[s]
      BY <1>t, <2>6, <3>2, Zenon DEF Handles
    <3>4. yhandle[r] # y
      BY <2>4, <3>2, <3>3, Zenon
    <3>5. yhandle[r] # s /\ yhandle[r] \in Processes
      BY <1>p, <2>5, <3>1, Zenon
    <3> QED BY <2>2, <3>3, <3>4, <3>5, Zenon
  <2>7. Handles'
    <3>1. yhandle'[s] = y /\ \A r \in Sessions \ {s} : yhandle'[r] = yhandle[r]
      BY <1>t, <2>1, Zenon DEF TypeOK
    <3>2. waiting' \subseteq live'
      BY <1>t, <2>3, Zenon DEF Handles
    <3>3. ASSUME NEW r \in Sessions, r # s, yhandle'[r] # None
          PROVE  proc'[yhandle'[r]].pc \in {"armed", "clear"} /\ proc'[yhandle'[r]].s = r
      <4>1. yhandle'[r] = yhandle[r]
        BY <3>1, <3>3, Zenon
      <4>2. proc'[yhandle[r]] = proc[yhandle[r]]
        BY <2>6, <3>3, <4>1, Zenon
      <4>3. proc[yhandle[r]].pc \in {"armed", "clear"} /\ proc[yhandle[r]].s = r
        BY <1>t, <3>3, <4>1, Zenon DEF Handles
      <4> QED BY <4>1, <4>2, <4>3, Zenon
    <3> QED BY <2>2, <3>1, <3>2, <3>3 DEF Handles
  <2>8. ASSUME NEW r \in waiting, r # s
        PROVE  \/ \E z \in Timers : At(z, "armed")' /\ proc'[z].s = r
               \/ At(r, "arm")'
               \/ \E q \in Announcers : At(q, "exit")' /\ parent'[proc'[q].c] = r
    <3>1. CASE \E z \in Timers : At(z, "armed") /\ proc[z].s = r
      <4>1. PICK z \in Timers : At(z, "armed") /\ proc[z].s = r
        BY <3>1, Zenon
      <4>2. z # yhandle[s]
        <5>1. CASE yhandle[s] = None
          BY <5>1, <2>5, <4>1, SpawnAssumption, Zenon
        <5>2. CASE yhandle[s] # None
          BY <1>t, <2>8, <4>1, <5>2, Zenon DEF Handles
        <5> QED BY <5>1, <5>2, Zenon
      <4>3. z # y
        BY <2>4, <4>1, <4>2, Zenon DEF At
      <4>4. z \in Processes \ {s, y}
        BY <1>p, <2>5, <4>3, Zenon
      <4> QED BY <2>2, <4>1, <4>2, <4>4, Zenon DEF At
    <3>2. ASSUME NEW q \in Announcers, q # s PROVE proc'[q] = proc[q]
      <4>1. q \in Processes \ {s, y} /\ q # yhandle[s]
        BY <1>t, <1>p, <2>5, <3>2, Zenon DEF TypeOK
      <4> QED BY <2>2, <4>1, Zenon
    <3>3. CASE At(r, "arm")
      <4>1. r \in Announcers
        BY <1>t, <1>p, Zenon DEF TypeOK
      <4> QED BY <2>8, <3>2, <3>3, <4>1, Zenon DEF At
    <3>4. CASE \E q \in Announcers : At(q, "exit") /\ parent[proc[q].c] = r
      BY <2>3, <3>2, <3>4, Zenon DEF At
    <3> QED BY <1>t, <3>1, <3>3, <3>4, Zenon DEF WaitingIsGuarded, Announcers
  <2> QED BY <2>2, <2>3, <2>7, <2>8, Zenon DEF WaitingIsGuarded, Announcers, At
<1>9. ASSUME NEW p \in Announcers, Cancel(p)
      PROVE  Handles' /\ WaitingIsGuarded'
  <2> DEFINE s == parent[proc[p].c]
  <2>1. proc[p].pc = "cancel" /\ proc[p].c \in Children /\ s \in Sessions
    BY <1>9, <1>t, Zenon DEF Cancel, At, Announced, Announcing
  <2>2. /\ proc' = [Abort(yhandle[s]) EXCEPT ![p].pc = "exit"]
        /\ yhandle' = [yhandle EXCEPT ![s] = None]
        /\ UNCHANGED <<live, waiting, parent>>
    BY <1>9, Zenon DEF Cancel
  <2>o. proc[p].c \in Children /\ parent[proc[p].c] = s
    BY <2>1, Zenon
  <2> HIDE DEF s
  <2>a. TypeOK
    BY <1>t, Zenon
  <2>3. /\ proc'[p].pc = "exit" /\ proc'[p].c = proc[p].c
        /\ \A q \in Processes \ {p} :
              proc'[q] = IF q = yhandle[s] THEN Ready ELSE proc[q]
    BY <2>a, <2>1, <2>2, CancelMoves, Zenon
  <2>4. \A z \in Timers \cup {None}, q \in Announcers : z # q
    BY TimersApart, Zenon
  <2>5. ASSUME NEW z \in Timers, z # yhandle[s] PROVE proc'[z] = proc[z]
    BY <1>p, <2>3, <2>4, <2>5, Zenon
  <2>6. Handles'
    <3>1. yhandle'[s] = None /\ \A r \in Sessions \ {s} : yhandle'[r] = yhandle[r]
      BY <2>a, <2>1, <2>2, Zenon DEF TypeOK
    <3>2. ASSUME NEW r \in Sessions \ {s}, yhandle[r] # None
          PROVE  proc'[yhandle[r]] = proc[yhandle[r]]
      <4>1. yhandle[r] \in Timers
        BY <2>a, <3>2, Zenon DEF TypeOK
      <4>2. yhandle[r] # yhandle[s]
        BY <1>t, <2>1, <3>2, Zenon DEF Handles
      <4> QED BY <2>5, <4>1, <4>2, Zenon
    <3>3. ASSUME NEW r \in Sessions, yhandle'[r] # None
          PROVE  proc'[yhandle'[r]].pc \in {"armed", "clear"} /\ proc'[yhandle'[r]].s = r
      <4>1. r # s /\ yhandle'[r] = yhandle[r]
        BY <3>1, <3>3, Zenon
      <4>2. proc'[yhandle[r]] = proc[yhandle[r]]
        BY <3>2, <3>3, <4>1, Zenon
      <4> QED BY <1>t, <3>3, <4>1, <4>2, Zenon DEF Handles
    <3> QED BY <1>t, <2>2, <3>3, Zenon DEF Handles
  <2>7. ASSUME NEW r \in waiting, r # s
        PROVE  \/ \E z \in Timers : At(z, "armed")' /\ proc'[z].s = r
               \/ At(r, "arm")'
               \/ \E q \in Announcers : At(q, "exit")' /\ parent'[proc'[q].c] = r
    <3>1. CASE \E z \in Timers : At(z, "armed") /\ proc[z].s = r
      <4>1. PICK z \in Timers : At(z, "armed") /\ proc[z].s = r
        BY <3>1, Zenon
      <4>2. z # yhandle[s]
        <5>1. CASE yhandle[s] = None
          BY <5>1, <4>1, SpawnAssumption, Zenon
        <5>2. CASE yhandle[s] # None
          BY <1>t, <2>1, <2>7, <4>1, <5>2, Zenon DEF Handles
        <5> QED BY <5>1, <5>2, Zenon
      <4> QED BY <2>5, <4>1, <4>2, Zenon DEF At
    <3>2. ASSUME NEW q \in Announcers, q # p PROVE proc'[q] = proc[q]
      <4>1. q \in Processes \ {p} /\ q # yhandle[s]
        BY <2>a, <1>p, <2>1, <2>4, <3>2, Zenon DEF TypeOK
      <4> QED BY <2>3, <4>1, Zenon
    <3>3. CASE At(r, "arm")
      <4>1. r \in Announcers /\ r # p
        BY <2>a, <1>p, <2>1, <3>3, Zenon DEF TypeOK, At
      <4> QED BY <3>2, <3>3, <4>1, Zenon DEF At
    <3>4. CASE \E q \in Announcers : At(q, "exit") /\ parent[proc[q].c] = r
      <4>1. PICK q \in Announcers : At(q, "exit") /\ parent[proc[q].c] = r
        BY <3>4, Zenon
      <4>2. q # p
        BY <2>1, <4>1, Zenon DEF At
      <4> QED BY <2>2, <3>2, <4>1, <4>2, Zenon DEF At
    <3> QED BY <1>t, <3>1, <3>3, <3>4, Zenon DEF WaitingIsGuarded, Announcers
  <2>8. At(p, "exit")' /\ parent'[proc'[p].c] = s
    BY <2>2, <2>3, <2>o, Zenon DEF At
  <2> QED BY <2>2, <2>6, <2>7, <2>8, Zenon DEF WaitingIsGuarded, Announcers
<1>10. ASSUME NEW p \in Announcers, Exit(p)
      PROVE  Handles' /\ WaitingIsGuarded'
  <2> DEFINE s == parent[proc[p].c]
  <2>1. /\ waiting' = waiting \ {s} /\ Continue(p) /\ proc[p].pc = "exit"
        /\ UNCHANGED <<live, parent, yhandle>>
    BY <1>10, Zenon DEF Exit, At
  <2>2. \A q \in Processes \ {p} : proc'[q] = proc[q]
    BY <1>t, <1>p, <2>1, ContinueMoves, Zenon DEF Moves
  <2>3. \A z \in Timers \cup {None} : z # p
    BY TimersApart, Zenon
  <2>4. Handles'
    <3>1. \A r \in Sessions : yhandle[r] # None => yhandle[r] \in Processes \ {p}
      BY <1>t, <1>p, <2>3, Zenon DEF TypeOK
    <3> QED BY <1>t, <2>1, <2>2, <3>1, Zenon DEF Handles
  <2>5. ASSUME NEW r \in waiting, r # s
        PROVE  \/ \E y \in Timers : At(y, "armed")' /\ proc'[y].s = r
               \/ At(r, "arm")'
               \/ \E q \in Announcers : At(q, "exit")' /\ parent'[proc'[q].c] = r
    <3>1. CASE \E y \in Timers : At(y, "armed") /\ proc[y].s = r
      BY <1>p, <2>2, <2>3, <3>1, Zenon DEF At
    <3>2. CASE At(r, "arm")
      <4>1. r \in Processes \ {p}
        BY <1>t, <1>p, <2>1, <3>2, Zenon DEF TypeOK, At
      <4> QED BY <2>2, <3>2, <4>1, Zenon DEF At
    <3>3. CASE \E q \in Announcers : At(q, "exit") /\ parent[proc[q].c] = r
      <4>1. PICK q \in Announcers : At(q, "exit") /\ parent[proc[q].c] = r
        BY <3>3, Zenon
      <4>2. q \in Processes \ {p}
        BY <1>p, <2>5, <4>1, Zenon
      <4> QED BY <2>1, <2>2, <4>1, <4>2, Zenon DEF At
    <3> QED BY <1>t, <3>1, <3>2, <3>3, Zenon DEF WaitingIsGuarded, Announcers
  <2> QED BY <2>1, <2>4, <2>5, Zenon DEF WaitingIsGuarded, Announcers
<1>11. ASSUME NEW y \in Timers, Fire(y) \/ TimerClear(y)
      PROVE  Handles' /\ WaitingIsGuarded'
  <2> DEFINE s == proc[y].s
  <2>1. /\ Moves(y) /\ UNCHANGED <<live, parent>>
        /\ waiting' \subseteq waiting /\ (At(y, "armed") => s \notin waiting')
        /\ \/ /\ UNCHANGED yhandle
              /\ proc'[y].pc \in {"armed", "clear"} /\ proc'[y].s = s
           \/ \A r \in Sessions : \/ yhandle'[r] = None
                                  \/ yhandle'[r] = yhandle[r] /\ (r # s \/ yhandle[r] # y)
    <3>1. CASE Fire(y) /\ s \in live
      <4>1. /\ waiting' = waiting \ {s} /\ Goto(y, "clear") /\ UNCHANGED <<yhandle, live, parent>>
        BY <3>1, Zenon DEF Fire
      <4>2. Moves(y) /\ proc'[y].pc = "clear" /\ proc'[y].s = s
        BY <1>t, <1>p, <4>1, GotoMoves, Zenon DEF PCs
      <4> QED BY <4>1, <4>2, Zenon
    <3>2. CASE Fire(y) /\ s \notin live
      <4>1. /\ proc' = [proc EXCEPT ![y] = Ready] /\ UNCHANGED <<waiting, live, parent>>
            /\ yhandle' = [yhandle EXCEPT ![s] = IF @ = y THEN None ELSE @]
        BY <3>2, Zenon DEF Fire
      <4>2. Moves(y)
        BY <1>t, <4>1, Zenon DEF Moves
      <4>3. s \notin waiting
        BY <1>w, <3>2, Zenon
      <4>4. \A r \in Sessions : yhandle'[r] = IF r = s /\ yhandle[r] = y THEN None ELSE yhandle[r]
        BY <1>t, <4>1, Zenon DEF TypeOK
      <4> QED BY <4>1, <4>2, <4>3, <4>4, Zenon
    <3>3. CASE TimerClear(y)
      <4>1. /\ proc' = [proc EXCEPT ![y] = Ready] /\ UNCHANGED <<waiting, live, parent>>
            /\ yhandle' = [yhandle EXCEPT ![s] = None] /\ ~At(y, "armed")
        BY <3>3, Zenon DEF TimerClear, At
      <4>2. Moves(y)
        BY <1>t, <4>1, Zenon DEF Moves
      <4>3. \A r \in Sessions : yhandle'[r] = IF r = s THEN None ELSE yhandle[r]
        BY <1>t, <4>1, Zenon DEF TypeOK
      <4> QED BY <4>1, <4>2, <4>3, Zenon
    <3> QED BY <1>11, <3>1, <3>2, <3>3, Zenon
  <2> HIDE DEF s
  <2>2. \A q \in Processes \ {y} : proc'[q] = proc[q]
    BY <2>1, Zenon DEF Moves
  <2>3. \A q \in Announcers : proc'[q] = proc[q]
    BY <1>p, <2>2, TimersApart, Zenon
  <2>4. ASSUME NEW r \in Sessions, yhandle'[r] # None
        PROVE  proc'[yhandle'[r]].pc \in {"armed", "clear"} /\ proc'[yhandle'[r]].s = r
    <3>1. /\ yhandle'[r] = yhandle[r] /\ yhandle[r] \in Processes
          /\ proc[yhandle[r]].pc \in {"armed", "clear"} /\ proc[yhandle[r]].s = r
      <4>1. yhandle'[r] = yhandle[r] /\ yhandle[r] # None
        BY <2>1, <2>4, Zenon
      <4>2. yhandle[r] \in Processes
        BY <1>t, <1>p, <4>1, Zenon DEF TypeOK
      <4> QED BY <1>t, <4>1, <4>2, Zenon DEF Handles
    <3>2. CASE yhandle[r] # y
      BY <2>2, <3>1, <3>2, Zenon
    <3>3. CASE yhandle[r] = y
      BY <2>1, <2>4, <3>1, <3>3, Zenon DEF s
    <3> QED BY <3>2, <3>3, Zenon
  <2>5. Handles'
    BY <1>w, <2>1, <2>4, Zenon DEF Handles
  <2>6. ASSUME NEW r \in waiting'
        PROVE  \/ \E z \in Timers : At(z, "armed")' /\ proc'[z].s = r
               \/ At(r, "arm")'
               \/ \E q \in Announcers : At(q, "exit")' /\ parent'[proc'[q].c] = r
    <3>0. r \in waiting
      BY <2>1, Zenon
    <3>1. CASE \E z \in Timers : At(z, "armed") /\ proc[z].s = r
      <4>1. PICK z \in Timers : At(z, "armed") /\ proc[z].s = r
        BY <3>1, Zenon
      <4>2. z # y
        BY <2>1, <2>6, <4>1, Zenon DEF s
      <4> QED BY <1>p, <2>2, <4>1, <4>2, Zenon DEF At
    <3>2. CASE At(r, "arm")
      <4>1. r \in Announcers
        BY <1>t, <1>p, <3>0, Zenon DEF TypeOK
      <4> QED BY <2>3, <3>2, <4>1, Zenon DEF At
    <3>3. CASE \E q \in Announcers : At(q, "exit") /\ parent[proc[q].c] = r
      BY <2>1, <2>3, <3>3, Zenon DEF At
    <3> QED BY <1>t, <3>0, <3>1, <3>2, <3>3, Zenon DEF WaitingIsGuarded, Announcers
  <2> QED BY <2>5, <2>6, Zenon DEF WaitingIsGuarded, Announcers
<1>12. CASE UNCHANGED vars
  <2>1. UNCHANGED <<yhandle, waiting, parent, proc, live>>
    BY <1>12, Zenon DEF vars
  <2> QED BY <1>3a, <1>w, <2>1, Zenon
<1> QED
  BY <1>1, <1>2, <1>3, <1>4, <1>4a, <1>4b, <1>5, <1>6, <1>7, <1>8, <1>9, <1>10,
     <1>11, <1>12, Zenon
  DEF Next, Turn, Announcer, Timer, Sweep, Announcers

\* No interleaving of yields, announcers, timers, kills, the sweeper and the
\* archiving of the parent leaves a session waiting with nobody to wake it.
THEOREM WaitIsGuarded == Spec => []WaitingIsGuarded
<1>1. Init => GuardInv
  <2> SUFFICES ASSUME Init PROVE TypeInv /\ Handles /\ WaitingIsGuarded
    BY Zenon DEF GuardInv
  <2>1. \A p \in Announcers : proc[p].pc = "idle"
    BY Zenon DEF Init, Ready, Announcers, Processes
  <2>2. TypeInv
    BY <2>1, TypeInit, Zenon DEF TypeInv, Announced, Announcing
  <2> QED BY <2>2, Zenon DEF Init, Handles, WaitingIsGuarded
<1>2. GuardInv => WaitingIsGuarded
  BY Zenon DEF GuardInv
<1> QED
  BY <1>1, <1>2, GuardStep, PTL DEF Spec

-----------------------------------------------------------------------------
(* A child leaves the tree only after its parent has been told.            *)

\* c, its parent and its parent's parent are there.
Connected(c) ==
  /\ c \in live /\ parent[c] \in live
  /\ parent[c] = Root \/ parent[parent[c]] \in live

\* A session that is there, or that has children, has been spawned: an id is
\* handed out once, so a session that is gone does not come back.
Lineage ==
  \A c \in Children :
    /\ c \in live => parent[c] # None
    /\ parent[c] \in Children => parent[parent[c]] # None

\* A child out of the tree has been announced unless its line is broken; so has
\* one marked for the sweeper and one that is about to be taken out.
Told ==
  /\ \A c \in Children :
       parent[c] # None /\ tree[c] = "no" /\ Connected(c) => word[c] # "none"
  /\ \A c \in Children :
       tree[c] = "completed" /\ parent[c] \in live => word[c] # "none"
  /\ \A p \in Announcers :
       /\ proc[p].pc = "reclaim" =>
            word[proc[p].c] # "none" \/ parent[proc[p].c] \notin live
       /\ proc[p].pc = "unpushed" => parent[proc[p].c] \notin live

ToldInv == TypeInv /\ Lineage /\ Told

\* No process comes to the reclaim.
Held ==
  \A q \in Announcers :
    proc'[q].pc \in {"reclaim", "unpushed"} => proc'[q] = proc[q]

\* A step of one process that does not lead to the reclaim.
LEMMA MovesHeld ==
  ASSUME NEW p \in Processes, Moves(p), proc'[p].pc \notin {"reclaim", "unpushed"}
  PROVE  Held
  BY Zenon DEF Moves, Held, Announcers, Processes

\* All steps but Spawn and Publish: sessions only leave, an announce is dropped
\* only with the parent's queue, and an entry only for a reason.
LEMMA ToldFrame ==
  ASSUME ToldInv, live' \subseteq live, parent' = parent, Held,
         \A c \in Children : word[c] # "none" => word'[c] # "none" \/ parent[c] \notin live',
         \A c \in Children :
            \/ tree'[c] = tree[c]
            \/ tree'[c] = "no" /\ (Connected(c)' => word'[c] # "none")
            \/ tree'[c] = "completed" /\ parent[c] \notin live'
  PROVE  Lineage' /\ Told'
<1>1. TypeOK /\ Announced /\ Lineage /\ Told
  BY Zenon DEF ToldInv, TypeInv
<1>2. Lineage'
  BY <1>1, Zenon DEF Lineage
<1>3. \A c \in Children : Connected(c)' => Connected(c) /\ parent[c] \in live'
  BY Zenon DEF Connected
<1>4. ASSUME NEW c \in Children, parent'[c] # None, tree'[c] = "no", Connected(c)'
      PROVE  word'[c] # "none"
  BY <1>1, <1>3, <1>4, Zenon DEF Told
<1>5. ASSUME NEW c \in Children, tree'[c] = "completed", parent'[c] \in live'
      PROVE  word'[c] # "none"
  BY <1>1, <1>5, Zenon DEF Told
<1>6. ASSUME NEW p \in Announcers, proc'[p].pc \in {"reclaim", "unpushed"}
      PROVE  /\ proc'[p].pc = "reclaim" =>
                  word'[proc'[p].c] # "none" \/ parent'[proc'[p].c] \notin live'
             /\ proc'[p].pc = "unpushed" => parent'[proc'[p].c] \notin live'
  <2>1. proc'[p] = proc[p]
    BY <1>6, Zenon DEF Held
  <2>2. proc[p].c \in Children
    BY <1>1, <1>6, <2>1, Zenon DEF Announced, Announcing
  <2> QED BY <1>1, <1>6, <2>1, <2>2, Zenon DEF Told
<1> QED BY <1>2, <1>4, <1>5, <1>6, Zenon DEF Told

LEMMA ToldStep == ToldInv /\ [Next]_vars => ToldInv'
<1> SUFFICES ASSUME ToldInv, [Next]_vars
             PROVE  Lineage' /\ Told'
  BY TypeStep, Zenon DEF ToldInv
<1>t. TypeOK /\ Announced /\ Lineage /\ Told /\ proc \in [Processes -> Rec]
  BY Zenon DEF ToldInv, TypeInv, TypeOK, Rec
<1>p. Announcers \subseteq Processes /\ Sessions \subseteq Processes /\ Sweeper \in Announcers
      /\ Timers \subseteq Processes /\ Children \subseteq Sessions
  BY Zenon DEF Announcers, Processes, Sessions
<1>n. Root \notin Children /\ None \notin Sessions
  BY SpawnAssumption, Zenon DEF Sessions
<1>a. ASSUME NEW p \in Announcers, proc[p].pc \in Announcing
      PROVE  proc[p].c \in Children /\ parent[proc[p].c] \in Sessions
  BY <1>a, <1>t, Zenon DEF Announced
<1>h. UNCHANGED proc => Held
  BY Zenon DEF Held
<1>f. ASSUME UNCHANGED <<live, parent, tree>>, Held,
             \A c \in Children : word[c] # "none" => word'[c] # "none"
      PROVE  Lineage' /\ Told'
  BY <1>f, ToldFrame, Zenon
<1>i. \A s : InjectInto(s) => \A c \in Children : word[c] # "none" => word'[c] # "none"
  BY <1>t, Zenon DEF InjectInto, TypeOK
<1>u. \A c \in Children : PushAnnounce(c) => \A d \in Children : word[d] # "none" => word'[d] # "none"
  BY <1>t, Zenon DEF PushAnnounce, TypeOK
<1> USE DEF state, turns, yields
<1>1. ASSUME NEW s \in Sessions, Begin(s) \/ LlmReturns(s) \/ Yield(s)
      PROVE  Lineage' /\ Told'
  <2>1. PICK pc \in {"llm", "tools", "errored", "arm"} : Goto(s, pc)
    BY <1>1, Zenon DEF Begin, LlmReturns, Yield
  <2>2. Held
    <3>1. pc \in PCs /\ s \in Processes
      BY <1>p, <2>1, Zenon DEF PCs
    <3>2. Moves(s) /\ proc'[s].pc = pc
      BY <1>t, <2>1, <3>1, GotoMoves, Zenon
    <3> QED BY <3>1, <3>2, MovesHeld, Zenon
  <2> QED BY <1>1, <1>f, <2>2, Zenon DEF Begin, LlmReturns, Yield
<1>2. ASSUME NEW s \in Sessions, Reply(s) \/ Errored(s)
      PROVE  Lineage' /\ Told'
  <2>1. Held
    <3>1. CASE proc' = [proc EXCEPT ![s].pc = "mark", ![s].c = s]
      BY <1>p, <1>t, <3>1, MarkMoves, MovesHeld, Zenon
    <3>2. CASE Continue(s)
      BY <1>p, <1>t, <3>2, ContinueMoves, MovesHeld, Zenon
    <3> QED BY <1>2, <3>1, <3>2, Zenon DEF Reply, Errored
  <2> QED BY <1>2, <1>f, <2>1, Zenon DEF Reply, Errored
<1>3. ASSUME NEW s \in Sessions, EndTurn(s) \/ \E c \in Children : Kill(s, c)
      PROVE  Lineage' /\ Told'
  <2>1. Held
    <3>1. CASE proc' = [proc EXCEPT ![s] = Ready]
      <4>1. Moves(s) /\ proc'[s] = Ready
        BY <1>p, <1>t, <3>1, SetMoves, ReadyIsRec, Zenon
      <4>2. proc'[s].pc = "idle" /\ s \in Processes
        BY <1>p, <4>1 DEF Ready
      <4> QED BY <4>1, <4>2, MovesHeld, Zenon
    <3>2. CASE \E c \in Children : BeginKill(s, c)
      <4>1. Moves(s) /\ proc'[s].pc = "kill" /\ s \in Processes
        BY <1>p, <1>t, <3>2, KillMoves, Zenon
      <4> QED BY <4>1, MovesHeld, Zenon
    <3> QED BY <1>3, <3>1, <3>2, Zenon DEF EndTurn, Kill
  <2>2. UNCHANGED <<live, parent, tree>> /\ (UNCHANGED word \/ InjectInto(s))
    BY <1>3, Zenon DEF EndTurn, Kill
  <2> QED BY <1>f, <1>i, <2>1, <2>2, Zenon
<1>4. ASSUME NEW s \in Sessions, Arm(s)
      PROVE  Lineage' /\ Told'
  <2>1. PICK y \in Timers : ArmStep(s, y)
    BY <1>4, Zenon DEF Arm, ArmStep
  <2>2. /\ proc'[s].pc = "reply"
        /\ \A q \in Processes \ {s, y} : proc'[q] = IF q = yhandle[s] THEN Ready ELSE proc[q]
    <3>1. TypeOK
      BY <1>t, Zenon
    <3> HIDE DEF state, turns, yields
    <3> QED BY <2>1, <3>1, ArmMoves
  <2>3. Held
    <3> SUFFICES ASSUME NEW q \in Announcers, proc'[q].pc \in {"reclaim", "unpushed"}
                 PROVE  proc'[q] = proc[q]
      BY Zenon DEF Held
    <3>1. q \in Processes /\ q # y /\ q # yhandle[s] /\ q # s
      BY <1>t, <2>2, TimersApart, Zenon DEF TypeOK
    <3> QED BY <2>2, <3>1, Zenon
  <2> QED BY <1>4, <1>f, <2>3, Zenon DEF Arm
<1>5. ASSUME NEW p \in Announcers, Recover(p) \/ Exit(p)
      PROVE  Lineage' /\ Told'
  <2>1. Held
    <3>1. CASE Goto(p, "cancel")
      BY <1>p, <1>t, <3>1, GotoMoves, MovesHeld, Zenon DEF PCs
    <3>2. CASE Continue(p)
      BY <1>p, <1>t, <3>2, ContinueMoves, MovesHeld, Zenon
    <3> QED BY <1>5, <3>1, <3>2, Zenon DEF Recover, Exit
  <2>2. UNCHANGED <<live, parent, tree>> /\ (UNCHANGED word \/ InjectInto(parent[proc[p].c]))
    BY <1>5, Zenon DEF Recover, Exit, Drain
  <2> QED BY <1>f, <1>i, <2>1, <2>2, Zenon
<1>6. ASSUME NEW p \in Announcers, Cancel(p)
      PROVE  Lineage' /\ Told'
  <2> DEFINE s == parent[proc[p].c]
  <2>1. s \in Sessions
    BY <1>6, <1>a, Zenon DEF Cancel, At, Announcing
  <2>2. proc' = [Abort(yhandle[s]) EXCEPT ![p].pc = "exit"]
    BY <1>6, Zenon DEF Cancel
  <2> HIDE DEF s
  <2>3. /\ proc'[p].pc = "exit"
        /\ \A q \in Processes \ {p} : proc'[q] = IF q = yhandle[s] THEN Ready ELSE proc[q]
    BY <1>t, <2>1, <2>2, CancelMoves, Zenon
  <2>4. Held
    <3> SUFFICES ASSUME NEW q \in Announcers, proc'[q].pc \in {"reclaim", "unpushed"}
                 PROVE  proc'[q] = proc[q]
      BY Zenon DEF Held
    <3>1. q \in Processes /\ q # yhandle[s] /\ q # p
      BY <1>t, <2>1, <2>3, TimersApart, Zenon DEF TypeOK
    <3> QED BY <2>3, <3>1, Zenon
  <2> QED BY <1>6, <1>f, <2>4, Zenon DEF Cancel
<1>7. ASSUME NEW y \in Timers, Fire(y) \/ TimerClear(y)
      PROVE  Lineage' /\ Told'
  <2>1. Moves(y)
    BY <1>7, <1>t, Zenon DEF Fire, TimerClear, Goto, Moves
  <2>2. Held
    BY <1>p, <2>1, TimersApart, Zenon DEF Held, Moves
  <2>3. UNCHANGED <<live, parent, tree>> /\ (UNCHANGED word \/ InjectInto(proc[y].s))
    BY <1>7, Zenon DEF Fire, TimerClear, Drain
  <2> QED BY <1>f, <1>i, <2>2, <2>3, Zenon
<1>8. ASSUME NEW c \in Children, SpawnTimeout(c)
      PROVE  Lineage' /\ Told'
  BY <1>8, <1>f, <1>h, <1>u, Zenon DEF SpawnTimeout
<1>9. CASE UNCHANGED vars
  BY <1>9, <1>f, <1>h, Zenon DEF vars
<1>10. CASE Forget
  <2>1. \A c \in Children : word[c] # "none" => word'[c] # "none" \/ parent[c] \notin live'
    BY <1>10, <1>t, Zenon DEF Forget, Dropped, TypeOK
  <2> QED BY <1>10, <1>h, <2>1, ToldFrame, Zenon DEF Forget
<1>11. ASSUME NEW p \in Announcers, KillNext(p)
      PROVE  Lineage' /\ Told'
  <2> DEFINE last == proc[p].k = {}
             v == IF last THEN proc[p].c
                  ELSE CHOOSE d \in proc[p].k : list_children(d) \cap proc[p].k = {}
             r == IF ~ last THEN [proc[p] EXCEPT !.k = @ \ {v}]
                  ELSE IF p = Sweeper THEN Ready
                  ELSE [proc[p] EXCEPT !.pc = "reply", !.c = None]
  <2>1. /\ At(p, "kill") /\ parent' = parent /\ live' = live \ {v}
        /\ word' = IF last /\ p = Sweeper /\ parent[v] \in live
                   THEN [Dropped(v) EXCEPT ![v] = "queued"] ELSE Dropped(v)
        /\ tree' = [c \in Children |->
                       IF c = v \/ (~ last /\ parent[c] = v) THEN "no" ELSE tree[c]]
        /\ proc' = [proc EXCEPT ![p] = r]
    BY <1>11, Zenon DEF KillNext
  <2>2. r.pc \in {"kill", "idle", "reply"}
    <3>1. proc[p] \in Rec /\ proc[p].pc = "kill"
      BY <1>p, <1>t, <2>1, Zenon DEF At
    <3> HIDE DEF last, v
    <3>2. [proc[p] EXCEPT !.k = @ \ {v}].pc = "kill"
      BY <3>1, Zenon DEF Rec
    <3>3. [proc[p] EXCEPT !.pc = "reply", !.c = None].pc = "reply"
      BY <3>1, Zenon DEF Rec
    <3> QED BY <3>2, <3>3, Zenon DEF Ready
  <2> HIDE DEF last, v, r
  <2>3. Held
    <3>1. Moves(p) /\ proc'[p] = r
      BY <1>p, <1>t, <2>1, Zenon DEF Moves
    <3> QED BY <1>p, <2>2, <3>1, MovesHeld, Zenon
  <2>4. \A c \in Children : word[c] # "none" => word'[c] # "none" \/ parent[c] \notin live'
    <3>1. \A c \in Children : word[c] # "none" => Dropped(v)[c] # "none" \/ parent[c] = v
      BY Zenon DEF Dropped
    <3>2. \A c \in Children : word'[c] = "queued" \/ word'[c] = Dropped(v)[c]
      BY <2>1, Zenon DEF Dropped
    <3> QED BY <2>1, <3>1, <3>2, Zenon
  <2>5. \A c \in Children : tree'[c] = tree[c] \/ (tree'[c] = "no" /\ ~ Connected(c)')
    BY <2>1, Zenon DEF Connected
  <2> QED BY <2>1, <2>3, <2>4, <2>5, ToldFrame, Zenon
<1>12. ASSUME NEW C, \A c \in C : parent[c] \notin live, NEW c \in Children,
              C \subseteq Children, c \in C \/ parent[c] \in C
       PROVE  ~ Connected(c)
  BY <1>12, <1>n, Zenon DEF Connected
<1>13. CASE SweepReclaim
  <2> DEFINE C == {c \in Children : InTree(c) /\ parent[c] \notin live}
  <2>1. /\ UNCHANGED <<live, parent, word, proc>>
        /\ \A c \in Children :
              \/ tree'[c] = remove_descendant_entries(C)[c]
              \/ tree'[c] = "no" /\ tree[c] = "completed" /\ parent[c] \in live
    BY <1>13, Zenon DEF SweepReclaim
  <2>2. \A c \in Children : \/ tree'[c] = tree[c]
                            \/ tree'[c] = "no" /\ (c \in C \/ parent[c] \in C)
                            \/ tree'[c] = "no" /\ word[c] # "none"
    <3> HIDE DEF C
    <3> QED BY <1>t, <2>1, Zenon DEF remove_descendant_entries, Told
  <2>3. \A c \in Children : c \in C \/ parent[c] \in C => ~ Connected(c)
    BY <1>12, Zenon
  <2> HIDE DEF C
  <2>4. \A c \in Children : Connected(c)' => Connected(c)
    BY <2>1, Zenon DEF Connected
  <2>5. \A c \in Children : \/ tree'[c] = tree[c]
                            \/ tree'[c] = "no" /\ (Connected(c)' => word'[c] # "none")
    BY <2>1, <2>2, <2>3, <2>4, Zenon
  <2> QED BY <1>h, <2>1, <2>5, ToldFrame, Zenon
<1>14. ASSUME NEW c \in Children, SweepChild(c)
       PROVE  Lineage' /\ Told'
  <2>0. UNCHANGED <<live, parent, word>>
    BY <1>14, Zenon DEF SweepChild
  <2>1. CASE parent[c] \notin live /\ tree' = remove_descendant_entries({c}) /\ UNCHANGED proc
    <3>1. \A d \in Children : d \in {c} \/ parent[d] \in {c} => ~ Connected(d)
      BY <1>12, <2>1
    <3>2. \A d \in Children : \/ tree'[d] = tree[d]
                              \/ tree'[d] = "no" /\ (d \in {c} \/ parent[d] \in {c})
      BY <2>1, Zenon DEF remove_descendant_entries
    <3>3. \A d \in Children : Connected(d)' => Connected(d)
      BY <2>0, Zenon DEF Connected
    <3>4. \A d \in Children : \/ tree'[d] = tree[d]
                              \/ tree'[d] = "no" /\ (Connected(d)' => word'[d] # "none")
      BY <3>1, <3>2, <3>3, Zenon
    <3> QED BY <1>h, <2>0, <2>1, <3>4, ToldFrame, Zenon
  <2>2. CASE UNCHANGED tree /\ proc' = [proc EXCEPT ![Sweeper].pc = "mark", ![Sweeper].c = c]
    <3>1. Held
      BY <1>p, <1>t, <2>2, MarkMoves, MovesHeld, Zenon
    <3> QED BY <1>f, <2>0, <2>2, <3>1, Zenon
  <2>3. CASE UNCHANGED tree /\ BeginKill(Sweeper, c)
    <3>1. Held
      BY <1>p, <1>t, <2>3, KillMoves, MovesHeld, Zenon
    <3> QED BY <1>f, <2>0, <2>3, <3>1, Zenon
  <2> QED BY <1>14, <2>1, <2>2, <2>3, Zenon DEF SweepChild
<1>15. ASSUME NEW p \in Announcers, Reclaim(p)
       PROVE  Lineage' /\ Told'
  <2> DEFINE c == proc[p].c
  <2>1. c \in Children
    BY <1>15, <1>a, Zenon DEF Reclaim, At, Announcing
  <2>2. /\ UNCHANGED <<live, parent, word>> /\ Goto(p, "recover")
        /\ \/ tree' = tree
           \/ proc[p].pc = "reclaim" /\ tree' = [tree EXCEPT ![c] = "no"]
           \/ proc[p].pc = "unpushed" /\ tree' = [tree EXCEPT ![c] = "completed"]
    BY <1>15, Zenon DEF Reclaim, At
  <2>3. Held
    BY <1>p, <1>t, <2>2, GotoMoves, MovesHeld, Zenon DEF PCs
  <2>4. proc[p].pc = "reclaim" => word[c] # "none" \/ parent[c] \notin live
    BY <1>t, Zenon DEF Told
  <2>5. proc[p].pc = "unpushed" => parent[c] \notin live'
    BY <1>t, <2>2, Zenon DEF Told
  <2> HIDE DEF c
  <2>6. \A d \in Children :
          \/ tree'[d] = tree[d]
          \/ tree'[d] = "no" /\ (Connected(d)' => word'[d] # "none")
          \/ tree'[d] = "completed" /\ parent[d] \notin live'
    <3>1. \A d \in Children \ {c} : tree'[d] = tree[d]
      BY <1>t, <2>2, Zenon DEF TypeOK
    <3>2. \/ tree'[c] = tree[c]
          \/ tree'[c] = "no" /\ proc[p].pc = "reclaim"
          \/ tree'[c] = "completed" /\ proc[p].pc = "unpushed"
      BY <1>t, <2>1, <2>2, Zenon DEF TypeOK
    <3>3. \A d \in Children : Connected(d)' => parent[d] \in live
      BY <2>2, Zenon DEF Connected
    <3> QED BY <2>2, <2>4, <2>5, <3>1, <3>2, <3>3, Zenon
  <2> QED BY <2>2, <2>3, <2>6, ToldFrame, Zenon
<1>16. ASSUME NEW p \in Announcers, Publish(p)
       PROVE  Lineage' /\ Told'
  <2> DEFINE c == proc[p].c
  <2>1. c \in Children
    BY <1>16, <1>a, Zenon DEF Publish, At, Announcing
  <2>2. /\ UNCHANGED <<live, parent, tree>> /\ PushAnnounce(c)
        /\ Goto(p, IF parent[c] \in live THEN "reclaim" ELSE "unpushed")
    BY <1>16, Zenon DEF Publish
  <2> HIDE DEF c
  <2>3. /\ Moves(p) /\ proc'[p].c = c
        /\ proc'[p].pc = IF parent[c] \in live THEN "reclaim" ELSE "unpushed"
    BY <1>p, <1>t, <2>2, GotoMoves, Zenon DEF PCs, c
  <2>4. \A d \in Children : word[d] # "none" => word'[d] # "none"
    BY <1>u, <2>1, <2>2, Zenon
  <2>5. parent[c] \in live => word'[c] # "none"
    BY <1>t, <2>1, <2>2, Zenon DEF PushAnnounce, TypeOK
  <2>6. Lineage'
    BY <1>t, <2>2, Zenon DEF Lineage
  <2>7. \A d \in Children : Connected(d)' => Connected(d)
    BY <2>2, Zenon DEF Connected
  <2>8. ASSUME NEW q \in Announcers, proc'[q].pc \in {"reclaim", "unpushed"}
        PROVE  /\ proc'[q].pc = "reclaim" =>
                    word'[proc'[q].c] # "none" \/ parent'[proc'[q].c] \notin live'
               /\ proc'[q].pc = "unpushed" => parent'[proc'[q].c] \notin live'
    <3>1. CASE q = p
      BY <2>2, <2>3, <2>5, <3>1, Zenon
    <3>2. CASE q # p
      <4>1. proc'[q] = proc[q]
        BY <1>p, <2>3, <3>2, Zenon DEF Moves
      <4>2. proc[q].c \in Children
        BY <1>a, <2>8, <4>1, Zenon DEF Announcing
      <4> QED BY <1>t, <2>2, <2>4, <4>1, <4>2, Zenon DEF Told
    <3> QED BY <3>1, <3>2, Zenon
  <2> QED BY <1>t, <2>2, <2>4, <2>6, <2>7, <2>8, Zenon DEF Told
<1>17. ASSUME NEW s \in Sessions, NEW c \in Children, Spawn(s, c)
       PROVE  Lineage' /\ Told'
  <2>1. /\ s \in live /\ parent[c] = None /\ live' = live \cup {c} /\ UNCHANGED <<word, proc>>
        /\ \A d \in Children : tree'[d] = IF d = c THEN "active" ELSE tree[d]
        /\ \A d \in Children : parent'[d] = IF d = c THEN s ELSE parent[d]
    BY <1>17, <1>t, Zenon DEF Spawn, TypeOK
  <2>2. c \notin live /\ s # c
    BY <1>t, <2>1, Zenon DEF Lineage
  <2>3. \A d \in Children : parent[d] # c
    BY <1>t, <2>1, Zenon DEF Lineage
  <2>4. Lineage'
    <3>1. s \in Children => parent[s] # None
      BY <1>t, <2>1, Zenon DEF Lineage
    <3> QED BY <1>t, <1>n, <2>1, <2>2, <2>3, <3>1, Zenon DEF Lineage
  <2>5. \A d \in Children \ {c} : parent'[d] # None /\ Connected(d)' => Connected(d)
    <3> SUFFICES ASSUME NEW d \in Children \ {c}, parent'[d] # None, Connected(d)'
                 PROVE  Connected(d)
      OBVIOUS
    <3>1. d \in live /\ parent[d] \in live /\ parent[d] \in Sessions /\ parent[d] # c
      BY <1>t, <2>1, <2>3, Zenon DEF Connected, TypeOK
    <3>2. parent[d] = Root \/ parent[d] \in Children \ {c}
      BY <3>1, Zenon DEF Sessions
    <3>3. parent[d] # Root => parent[parent[d]] \in live
      BY <2>1, <2>3, <3>2, Zenon DEF Connected
    <3> QED BY <3>1, <3>3, Zenon DEF Connected
  <2>6. ASSUME NEW q \in Announcers, proc[q].pc \in {"reclaim", "unpushed"}
        PROVE  /\ proc[q].pc = "reclaim" =>
                    word[proc[q].c] # "none" \/ parent'[proc[q].c] \notin live'
               /\ proc[q].pc = "unpushed" => parent'[proc[q].c] \notin live'
    <3>1. proc[q].c \in Children /\ parent[proc[q].c] \in Sessions
      BY <1>a, <2>6, Zenon DEF Announcing
    <3>2. proc[q].c # c
      BY <1>n, <2>1, <3>1, Zenon
    <3> QED BY <1>t, <2>1, <2>3, <3>1, <3>2, Zenon DEF Told
  <2> QED BY <1>t, <2>1, <2>3, <2>4, <2>5, <2>6, Zenon DEF Told
<1> QED
  BY <1>1, <1>2, <1>3, <1>4, <1>5, <1>6, <1>7, <1>8, <1>9, <1>10, <1>11, <1>13,
     <1>14, <1>15, <1>16, <1>17
  DEF Next, Turn, Announcer, Timer, Sweep, Announcers

\* Whatever announces, kills, times out, sweeps or archives: an entry is out of
\* the spawn tree while the child's line up to the root lives only if an announce
\* of the child has reached its parent's queue.
THEOREM ReclaimIsTold == Spec => []ReclaimedIsAnnounced
<1>1. Init => ToldInv
  <2> SUFFICES ASSUME Init PROVE TypeInv /\ Lineage /\ Told
    BY Zenon DEF ToldInv
  <2>1. \A p \in Announcers : proc[p].pc = "idle"
    BY Zenon DEF Init, Ready, Announcers, Processes
  <2>2. TypeInv
    BY <2>1, TypeInit, Zenon DEF TypeInv, Announced, Announcing
  <2>3. Root \notin Children /\ None \notin Children
    BY SpawnAssumption, Zenon
  <2> QED BY <2>1, <2>2, <2>3, Zenon DEF Init, Lineage, Told
<1>2. ToldInv => ReclaimedIsAnnounced
  <2> SUFFICES ASSUME ToldInv, NEW c \in Children, parent[c] # None, tree[c] = "no",
                      AncestorsLive(c)
               PROVE  word[c] # "none"
    BY Zenon DEF ReclaimedIsAnnounced
  <2>1. PICK A \in SUBSET live : c \in A /\ \A x \in A : x = Root \/ parent[x] \in A
    BY Zenon DEF AncestorsLive
  <2>2. Root \notin Children
    BY SpawnAssumption, Zenon
  <2>3. Connected(c)
    BY <2>1, <2>2, Zenon DEF Connected
  <2> QED BY <2>3, Zenon DEF ToldInv, Told
<1> QED
  BY <1>1, <1>2, ToldStep, PTL DEF Spec
=============================================================================
