-------------------------- MODULE InboundQueueProofs --------------------------
(***************************************************************************)
(* Proofs about InboundQueue, for any set of messages, any capacity and    *)
(* any number of crashes.                                                  *)
(***************************************************************************)
EXTENDS InboundQueue, FiniteSetTheorems, SequenceTheorems,
        WellFoundedInduction, TLAPS

\* The consumer holds a request whenever it is not waiting for one.
ConsumerHolds == cpc # "recv" => cmsg \in Messages

\* The inductive form of TypeOK.
TypeInv == TypeOK /\ ConsumerHolds

\* A non-empty set of entries has a first line, and First finds it.
LEMMA FirstLine ==
  ASSUME NEW S \in SUBSET Entry, S # {}
  PROVE  First(S) \in S /\ \A f \in S : First(S).pos <= f.pos
<1> DEFINE R == OpToRel(<, Nat)
           T == {e.pos : e \in S}
<1>1. T \subseteq Nat /\ T # {}
  BY Zenon DEF Entry
<1>2. IsWellFoundedOn(R, Nat)
  BY NatLessThanWellFounded, Zenon
<1>3. PICK x \in T : \A y \in T : ~(<<y, x>> \in R)
  <2> HIDE DEF R, T
  <2> QED BY <1>1, <1>2, WFMin, Zenon
<1>4. \A a, b \in Nat : a < b => <<a, b>> \in R
  BY Zenon DEF R, OpToRel
<1>5. \A y \in T : x <= y
  <2>1. TAKE y \in T
  <2>2. x \in Nat /\ y \in Nat
    BY <1>1, Zenon
  <2>3. ~(y < x)
    BY <1>3, <1>4, <2>2, Zenon
  <2> QED BY <2>2, <2>3
<1>6. \E e \in S : \A f \in S : e.pos <= f.pos
  BY <1>5, Zenon
<1> QED
  BY <1>6, Zenon DEF First

-----------------------------------------------------------------------------
(* Type correctness.                                                       *)

LEMMA TypeInit == Init => TypeInv
<1> SUFFICES ASSUME Init PROVE TypeInv
  OBVIOUS
<1> USE ConstantsAssumption DEF Init
<1>1. call \in [Messages -> Call]
  BY Zenon DEF Call
<1>2. queue \in Seq(Messages) /\ Len(queue) <= Capacity /\ stash \in Seq(Messages)
  OBVIOUS
<1>3. ConsumerHolds
  BY Zenon DEF ConsumerHolds
<1>4. crashes \in 0..MaxCrashes
  OBVIOUS
<1> QED
  BY <1>1, <1>2, <1>3, <1>4, Zenon DEF TypeInv, TypeOK, Life, ConsumerPc, Gate

\* Each step of start-up, of the enqueue path and of the consumer preserves
\* the types, and the consumer never works without a request.
LEMMA TypeStep == TypeInv /\ [Next]_vars => TypeInv'
<1> SUFFICES ASSUME TypeInv, [Next]_vars
             PROVE  TypeInv'
  OBVIOUS
<1> USE ConstantsAssumption
    DEF TypeInv, TypeOK, ConsumerHolds, Life, Call, ConsumerPc,
        procVars, consVars, fileVars, histVars
<1>1. CASE RegisterPlugins
  BY <1>1, Zenon DEF RegisterPlugins
<1>2. CASE PublishSender
  BY <1>2, Zenon DEF PublishSender
<1>3. CASE InitInboundWal
  BY <1>3, Zenon DEF InitInboundWal
<1>4. CASE LoadAll
  BY <1>4, Zenon DEF LoadAll
<1>5. CASE TryReplayEntry
  <2>1. First(todo).msg \in Messages
    BY <1>5, FirstLine, Zenon DEF TryReplayEntry, Entry
  <2> QED
    BY <1>5, <2>1 DEF TryReplayEntry
<1>6. CASE StartConsumer
  BY <1>6, Zenon DEF StartConsumer
<1>7. CASE SetSessionHandler
  BY <1>7, Zenon DEF SetSessionHandler
<1>8. CASE SetRebuildMode \/ CloseGate \/ ReopenGate
  <2>1. CASE SetRebuildMode
    BY <2>1, Zenon DEF SetRebuildMode
  <2>2. CASE CloseGate
    BY <2>2, Zenon DEF CloseGate, Gate
  <2>3. CASE ReopenGate
    BY <2>3, Zenon DEF ReopenGate, Gate
  <2> QED BY <1>8, <2>1, <2>2, <2>3, Zenon
<1>9. ASSUME NEW m \in Messages, EnqueueDirect(m)
      PROVE  TypeInv'
  <2>1. call' \in [Messages -> Call]
    BY <1>9, Zenon DEF EnqueueDirect
  <2> QED
    BY <1>9, <2>1 DEF EnqueueDirect, ChainEnds
<1>10. ASSUME NEW m \in Messages, AppendWal(m)
      PROVE  TypeInv'
  BY <1>10 DEF AppendWal, CanArrive, Entry
<1>11. ASSUME NEW m \in Messages, TrySend(m)
      PROVE  TypeInv'
  <2>1. call' \in [Messages -> Call]
    BY <1>11, Zenon DEF TrySend
  <2>2. queue \in Seq(Messages) /\ stash \in Seq(Messages) /\ Capacity \in Nat
        /\ Len(queue) <= Capacity
    OBVIOUS
  <2>3. /\ queue' \in Seq(Messages) /\ Len(queue') <= Capacity
        /\ stash' \in Seq(Messages)
    <3> HIDE ConstantsAssumption DEF TypeInv, TypeOK
    <3>1. CASE Len(queue) < Capacity
      <4>1. Len(queue) \in Nat
        BY <2>2
      <4>2. queue' = Append(queue, m) /\ UNCHANGED stash
        BY <1>11, <2>2, <3>1, <4>1 DEF TrySend
      <4>3. queue' \in Seq(Messages) /\ Len(queue') = Len(queue) + 1
        BY <1>11, <2>2, <4>2
      <4> QED BY <2>2, <3>1, <4>1, <4>2, <4>3
    <3>2. CASE Len(queue) >= Capacity
      <4>1. Len(queue) \in Nat
        BY <2>2
      <4>2. /\ queue' = queue
            /\ stash' = stash \/ stash' = Append(stash, m)
        BY <1>11, <2>2, <3>2, <4>1 DEF TrySend
      <4>3. Append(stash, m) \in Seq(Messages)
        BY <1>11, <2>2
      <4> QED BY <2>2, <4>2, <4>3, Zenon
    <3> QED BY <2>2, <3>1, <3>2
  <2> QED
    BY <1>11, <2>1, <2>3, Zenon DEF TrySend
<1>12. CASE Recv
  BY <1>12 DEF Recv
<1>13. CASE SkipNoPlugin
  BY <1>13, Zenon DEF SkipNoPlugin
<1>14. CASE Process
  BY <1>14 DEF Process, ChainEnds
<1>15. CASE MarkRead
  BY <1>15, Zenon DEF MarkRead
<1>16. CASE Truncate
  BY <1>16, Zenon DEF Truncate
<1>17. CASE WriteEntry
  <2>1. First(kept) \in Entry
    BY <1>17, FirstLine, Zenon DEF WriteEntry
  <2> QED
    BY <1>17, <2>1, Zenon DEF WriteEntry
<1>18. CASE MarkDone
  BY <1>18, Zenon DEF MarkDone
<1>19. CASE MarkFails
  BY <1>19, Zenon DEF MarkFails
<1>20. CASE Crash
  <2>1. call' \in [Messages -> Call]
    BY <1>20, Zenon DEF Crash
  <2>2. crashes' \in 0..MaxCrashes
    BY <1>20 DEF Crash
  <2>3. queue' \in Seq(Messages) /\ Len(queue') <= Capacity
        /\ stash' \in Seq(Messages)
    BY <1>20 DEF Crash
  <2> QED
    BY <1>20, <2>1, <2>2, <2>3, Zenon DEF Crash, Gate
<1>21. CASE UNCHANGED vars
  BY <1>21, Zenon DEF vars
<1> QED
  BY <1>1, <1>2, <1>3, <1>4, <1>5, <1>6, <1>7, <1>8, <1>9, <1>10, <1>11, <1>12,
     <1>13, <1>14, <1>15, <1>16, <1>17, <1>18, <1>19, <1>20, <1>21, Zenon
  DEF Next, Start, Enqueue, Consume

\* Every variable keeps its type, and the channel never holds more than
\* inbound_queue_capacity messages.
THEOREM TypeCorrect == Spec => []TypeOK
<1>1. TypeInv => TypeOK
  BY Zenon DEF TypeInv
<1> QED
  BY TypeInit, TypeStep, <1>1, PTL DEF Spec

-----------------------------------------------------------------------------
(* Durability.                                                             *)

\* What the lock gives the rewrite.  The consumer deletes only a message that
\* is finished; before the truncation what it keeps is exactly the rest of the
\* file; after it, every line in the file comes before every line still to be
\* written, so that no write lands on another handle's line.
Rewriting ==
  /\ cpc \in {"mark", "kept", "writing"} => cmsg \in finished
  /\ cpc \notin {"kept", "writing"} => kept = {}
  /\ cpc = "kept" => kept = {e \in wal : e.msg # cmsg}
  /\ cpc = "writing" => \A e \in wal, f \in kept : e.pos <= f.pos

RewriteInv == TypeInv /\ Rewriting

LEMMA RewriteInit == Init => RewriteInv
  BY TypeInit, Zenon DEF Init, RewriteInv, Rewriting

\* The lock and the order of the lines hold whatever fails and whenever the
\* process dies.
LEMMA RewriteStep == RewriteInv /\ [Next]_vars => RewriteInv'
<1> SUFFICES ASSUME RewriteInv, [Next]_vars
             PROVE  Rewriting'
  BY TypeStep, Zenon DEF RewriteInv
<1> USE DEF procVars, consVars, fileVars, histVars
<1>1. CASE Start \/ SetRebuildMode \/ CloseGate \/ ReopenGate
  <2>1. UNCHANGED <<wal, consVars, finished>>
    BY <1>1, Zenon DEF Start, RegisterPlugins, PublishSender, InitInboundWal, LoadAll,
      TryReplayEntry, StartConsumer, SetSessionHandler, SetRebuildMode,
      CloseGate, ReopenGate
  <2> QED BY <2>1, Zenon DEF RewriteInv, Rewriting
<1>2. ASSUME NEW m \in Messages, Enqueue(m)
      PROVE  Rewriting'
  <2>1. /\ UNCHANGED consVars /\ finished \subseteq finished'
        /\ wal' = wal \/ cpc \notin {"kept", "writing"}
    BY <1>2, Zenon DEF Enqueue, EnqueueDirect, ChainEnds, AppendWal, TrySend, WalLocked
  <2> QED BY <2>1, Zenon DEF RewriteInv, Rewriting
<1>3. CASE Recv \/ SkipNoPlugin
  BY <1>3, Zenon DEF Recv, SkipNoPlugin, RewriteInv, Rewriting
<1>4. CASE Process
  BY <1>4, Zenon DEF Process, ChainEnds, RewriteInv, Rewriting
<1>5. CASE MarkRead \/ Truncate
  BY <1>5, Zenon DEF MarkRead, Truncate, RewriteInv, Rewriting
<1>6. CASE WriteEntry
  <2> DEFINE e == First(kept)
  <2>1. e \in kept /\ \A f \in kept : e.pos <= f.pos
    BY <1>6, FirstLine, Zenon DEF WriteEntry, RewriteInv, TypeInv, TypeOK
  <2>2. /\ cpc = "writing" /\ UNCHANGED <<cpc, cmsg, finished>>
        /\ \A f \in wal, g \in kept : f.pos <= g.pos
    BY <1>6, Zenon DEF WriteEntry, RewriteInv, Rewriting
  <2>3. wal' \subseteq wal \cup {e} /\ kept' \subseteq kept
    BY <1>6, Zenon DEF WriteEntry
  <2> HIDE DEF e
  <2> QED BY <2>1, <2>2, <2>3, Zenon DEF RewriteInv, Rewriting
<1>7. CASE MarkDone \/ MarkFails
  BY <1>7, Zenon DEF MarkDone, MarkFails, RewriteInv, Rewriting
<1>8. CASE Crash
  BY <1>8, Zenon DEF Crash, RewriteInv, Rewriting
<1>9. CASE UNCHANGED vars
  BY <1>9, Zenon DEF vars, RewriteInv, Rewriting
<1> QED
  BY <1>1, <1>2, <1>3, <1>4, <1>5, <1>6, <1>7, <1>8, <1>9, Zenon DEF Next, Consume

\* What the rewrite of the file does to the lines in the file and in memory.
LEMMA WriteEntryKeeps ==
  ASSUME RewriteInv, WriteEntry
  PROVE  wal' \cup kept' = wal \cup kept
<1> DEFINE e == First(kept)
<1>1. e \in kept
  BY FirstLine, Zenon DEF WriteEntry, RewriteInv, TypeInv, TypeOK
<1>2. {f \in wal : f.pos > e.pos} = {}
  <2>1. ASSUME NEW f \in wal PROVE ~(f.pos > e.pos)
    <3>1. f.pos <= e.pos
      BY <1>1, Zenon DEF WriteEntry, RewriteInv, Rewriting
    <3>2. f.pos \in Nat /\ e.pos \in Nat
      BY <1>1, Zenon DEF RewriteInv, TypeInv, TypeOK, Entry
    <3> QED BY <3>1, <3>2
  <2> QED BY <2>1, Zenon
<1>3. wal' = wal \cup {e} /\ kept' = kept \ {e}
  BY <1>2, Zenon DEF WriteEntry
<1> QED BY <1>1, <1>3, Zenon

DurableInv == RewriteInv /\ Durable

LEMMA DurableInit == Init => DurableInv
  BY RewriteInit, Zenon DEF Init, DurableInv, Durable

\* The steps that keep every line and log nothing.
LEMMA DurableFrame ==
  ASSUME Durable, logged' = logged, finished \subseteq finished',
         wal \cup kept \subseteq wal' \cup kept'
  PROVE  Durable'
  BY Zenon DEF Durable, MessagesOf

\* With the file system working and no crash inside the rewrite, every step
\* preserves the durability of a logged, unfinished message.
LEMMA DurableStep ==
  ASSUME ~CrashInRewrite, ~IoErrors
  PROVE  DurableInv /\ [Next]_vars => DurableInv'
<1> SUFFICES ASSUME DurableInv, [Next]_vars
             PROVE  Durable'
  BY RewriteStep, Zenon DEF DurableInv
<1>t. RewriteInv /\ Rewriting /\ Durable
  BY Zenon DEF DurableInv, RewriteInv
<1> USE DEF procVars, consVars, fileVars, histVars
<1>1. CASE Start \/ SetRebuildMode \/ CloseGate \/ ReopenGate
  <2>1. UNCHANGED <<wal, kept, logged, finished>>
    BY <1>1, Zenon DEF Start, RegisterPlugins, PublishSender, InitInboundWal, LoadAll,
      TryReplayEntry, StartConsumer, SetSessionHandler, SetRebuildMode,
      CloseGate, ReopenGate
  <2> QED BY <1>t, <2>1, DurableFrame, Zenon
<1>2. ASSUME NEW m \in Messages, EnqueueDirect(m) \/ TrySend(m)
      PROVE  Durable'
  <2>1. UNCHANGED <<wal, kept, logged>> /\ finished \subseteq finished'
    BY <1>2, Zenon DEF EnqueueDirect, ChainEnds, TrySend
  <2> QED BY <1>t, <2>1, DurableFrame, Zenon
<1>3. ASSUME NEW m \in Messages, AppendWal(m)
      PROVE  Durable'
  <2>1. UNCHANGED <<kept, finished>>
    BY <1>3, Zenon DEF AppendWal
  <2>2. CASE UNCHANGED <<wal, logged>>
    BY <1>t, <2>1, <2>2, DurableFrame, Zenon
  <2>3. CASE /\ wal' = wal \cup {[msg |-> m, pos |-> nextPos]}
             /\ logged' = logged \cup {m}
    <3>1. wal \cup kept \subseteq wal' \cup kept'
      BY <2>1, <2>3, Zenon
    <3>2. m \in MessagesOf(wal' \cup kept')
      <4> DEFINE new == [msg |-> m, pos |-> nextPos]
      <4>1. new \in wal' \cup kept' /\ new.msg = m
        BY <2>3, Zenon
      <4> QED BY <4>1, Zenon DEF MessagesOf
    <3> QED BY <1>t, <2>1, <2>3, <3>1, <3>2, Zenon DEF Durable, MessagesOf
  <2> QED BY <1>3, <2>2, <2>3, Zenon DEF AppendWal
<1>4. CASE Recv \/ SkipNoPlugin \/ Process \/ MarkDone
  <2>1. UNCHANGED <<wal, kept, logged>> /\ finished \subseteq finished'
    BY <1>4, Zenon DEF Recv, SkipNoPlugin, Process, ChainEnds, MarkDone
  <2> QED BY <1>t, <2>1, DurableFrame, Zenon
<1>5. CASE MarkRead
  <2>1. UNCHANGED <<wal, logged, finished>> /\ kept = {}
    BY <1>t, <1>5, Zenon DEF MarkRead, Rewriting
  <2> QED BY <1>t, <2>1, DurableFrame, Zenon
<1>6. CASE Truncate
  BY <1>t, <1>6, Zenon DEF Truncate, Rewriting, Durable, MessagesOf
<1>7. CASE WriteEntry
  <2>1. UNCHANGED <<logged, finished>>
    BY <1>7, Zenon DEF WriteEntry
  <2> QED BY <1>t, <1>7, <2>1, WriteEntryKeeps, DurableFrame, Zenon
<1>8. CASE MarkFails
  BY <1>8, Zenon DEF MarkFails
<1>9. CASE Crash
  <2>1. kept \subseteq wal /\ UNCHANGED <<wal, logged, finished>>
    BY <1>t, <1>9, Zenon DEF Crash, Rewriting
  <2> QED BY <1>t, <2>1, DurableFrame, Zenon
<1>10. CASE UNCHANGED vars
  BY <1>t, <1>10, DurableFrame, Zenon DEF vars
<1> QED
  BY <1>1, <1>2, <1>3, <1>4, <1>5, <1>6, <1>7, <1>8, <1>9, <1>10, Zenon
  DEF Next, Enqueue, Consume

\* If file operations succeed and the process never dies between the
\* truncation and the end of mark_done_and_delete, a message appended to the
\* WAL stays recoverable until the chain has ended for it, whatever crashes,
\* restarts, rejections and interleavings of enqueue calls happen.
THEOREM Durability ==
  ASSUME ~CrashInRewrite, ~IoErrors
  PROVE  Spec => []Durable
<1>1. DurableInv => Durable
  BY Zenon DEF DurableInv
<1> QED
  BY DurableInit, DurableStep, <1>1, PTL DEF Spec

-----------------------------------------------------------------------------
(* The queue implements the inbox.                                         *)

\* Where nothing arrives before start_inbound_queue has returned and the file
\* system works, whatever the queue, the replay, an enqueue call or the consumer
\* holds was logged before, and logged messages do not arrive again.
Traced ==
  /\ life \in {"walset", "replay", "up"} => walOpen
  /\ \A i \in DOMAIN queue : queue[i] \in logged
  /\ MessagesOf(todo) \subseteq logged
  /\ MessagesOf(wal \cup kept) \subseteq logged
  /\ cpc # "recv" => cmsg \in logged
  /\ finished \subseteq logged
  /\ \A m \in Messages : call[m] = "sending" => m \in logged
  /\ \A m \in logged : call[m] # "new"

TracedInv == RewriteInv /\ Traced

InboxInv == DurableInv /\ Traced

LEMMA TracedInit == Init => Traced
  BY DEF Init, Traced, MessagesOf

\* The steps that touch neither the file nor what is held or logged.
LEMMA TracedFrame ==
  ASSUME Traced, UNCHANGED <<wal, consVars, queue, call, histVars>>,
         MessagesOf(todo') \subseteq logged,
         life' \in {"walset", "replay", "up"} => walOpen'
  PROVE  Traced'
  BY Zenon DEF Traced, MessagesOf, consVars, histVars

LEMMA TracedStep ==
  ASSUME ~IoErrors, ~EarlyArrivals
  PROVE  TracedInv /\ [Next]_vars => TracedInv'
<1> SUFFICES ASSUME TracedInv, [Next]_vars
             PROVE  Traced'
  BY RewriteStep, Zenon DEF TracedInv
<1>t. TypeOK /\ ConsumerHolds /\ Traced
  BY Zenon DEF TracedInv, RewriteInv, TypeInv
<1> USE DEF procVars, consVars, fileVars, histVars
<1>1. CASE RegisterPlugins \/ PublishSender \/ StartConsumer \/ SetSessionHandler
           \/ SetRebuildMode \/ CloseGate \/ ReopenGate
  <2>1. UNCHANGED <<wal, consVars, queue, call, histVars, todo, walOpen>>
    BY <1>1, Zenon DEF RegisterPlugins, PublishSender, StartConsumer, SetSessionHandler,
                SetRebuildMode, CloseGate, ReopenGate
  <2>2. life' \in {"walset", "replay", "up"} => life \in {"walset", "replay", "up"}
    BY <1>1, Zenon DEF RegisterPlugins, PublishSender, StartConsumer, SetSessionHandler,
                SetRebuildMode, CloseGate, ReopenGate
  <2> QED BY <1>t, <2>1, <2>2, TracedFrame, Zenon DEF Traced
<1>2. CASE InitInboundWal
  <2>1. UNCHANGED <<wal, consVars, queue, call, histVars, todo>> /\ walOpen'
    BY <1>2, Zenon DEF InitInboundWal
  <2> QED BY <1>t, <2>1, TracedFrame, Zenon DEF Traced
<1>3. CASE LoadAll
  <2>1. UNCHANGED <<wal, consVars, queue, call, histVars, walOpen>> /\ life = "walset"
    BY <1>3, Zenon DEF LoadAll
  <2>2. todo' \subseteq wal
    BY <1>3, Zenon DEF LoadAll
  <2>3. MessagesOf(todo') \subseteq logged
    BY <1>t, <2>2, Zenon DEF Traced, MessagesOf
  <2> QED BY <1>t, <2>1, <2>3, TracedFrame, Zenon DEF Traced
<1>4. CASE TryReplayEntry
  <2>1. /\ UNCHANGED <<life, walOpen, wal, consVars, call, histVars>>
        /\ todo # {} /\ todo' \subseteq todo
        /\ queue' = queue \/ queue' = Append(queue, First(todo).msg)
    BY <1>4, Zenon DEF TryReplayEntry
  <2>2. First(todo).msg \in logged /\ First(todo).msg \in Messages
    BY <1>t, <2>1, FirstLine, Zenon DEF TypeOK, Traced, MessagesOf, Entry
  <2>3. \A i \in DOMAIN queue' : queue'[i] \in logged
    <3>1. CASE queue' = queue
      BY <1>t, <3>1, Zenon DEF Traced
    <3>2. CASE queue' = Append(queue, First(todo).msg)
      BY <1>t, <2>2, <3>2, AppendProperties DEF Traced, TypeOK
    <3> QED BY <2>1, <3>1, <3>2, Zenon
  <2> QED BY <1>t, <2>1, <2>3, Zenon DEF Traced, MessagesOf
<1>5. ASSUME NEW m \in Messages, EnqueueDirect(m)
      PROVE  Traced'
  BY <1>5, Zenon DEF EnqueueDirect, CanArrive
<1>6. ASSUME NEW m \in Messages, AppendWal(m)
      PROVE  Traced'
  <2>1. /\ UNCHANGED <<life, walOpen, queue, todo, consVars, finished>>
        /\ call' = [call EXCEPT ![m] = "sending"]
        /\ life = "up"
    BY <1>6, Zenon DEF AppendWal, CanArrive
  <2>2. wal' = wal \cup {[msg |-> m, pos |-> nextPos]} /\ logged' = logged \cup {m}
    BY <1>t, <1>6, <2>1, Zenon DEF AppendWal, Traced
  <2>3. MessagesOf(wal' \cup kept') \subseteq logged'
    BY <1>t, <2>1, <2>2 DEF Traced, MessagesOf
  <2>4. \A n \in Messages : call'[n] = "sending" => n \in logged'
    BY <1>t, <2>1, <2>2, Zenon DEF Traced, TypeOK
  <2>5. \A n \in logged' : call'[n] # "new"
    BY <1>t, <2>1, <2>2, Zenon DEF Traced, TypeOK
  <2> QED BY <1>t, <2>1, <2>2, <2>3, <2>4, <2>5, Zenon DEF Traced
<1>7. ASSUME NEW m \in Messages, TrySend(m)
      PROVE  Traced'
  <2>1. /\ UNCHANGED <<life, walOpen, todo, wal, consVars, histVars>>
        /\ call[m] = "sending"
        /\ queue' = queue \/ queue' = Append(queue, m)
        /\ \E v \in {"accepted", "stashed", "rejected"} : call' = [call EXCEPT ![m] = v]
    BY <1>7, Zenon DEF TrySend
  <2>2. m \in logged
    BY <1>t, <2>1, Zenon DEF Traced
  <2>3. \A i \in DOMAIN queue' : queue'[i] \in logged
    <3>1. CASE queue' = queue
      BY <1>t, <3>1, Zenon DEF Traced
    <3>2. CASE queue' = Append(queue, m)
      BY <1>t, <2>2, <3>2, AppendProperties DEF Traced, TypeOK
    <3> QED BY <2>1, <3>1, <3>2, Zenon
  <2>4. \A n \in Messages : call'[n] = "sending" => n \in logged
    BY <1>t, <2>1, Zenon DEF Traced, TypeOK
  <2>5. \A n \in logged : call'[n] # "new"
    BY <1>t, <2>1, Zenon DEF Traced, TypeOK
  <2> QED BY <1>t, <2>1, <2>3, <2>4, <2>5, Zenon DEF Traced, MessagesOf
<1>8. CASE Recv
  <2>1. /\ queue # <<>> /\ cmsg' = Head(queue) /\ queue' = Tail(queue)
        /\ UNCHANGED <<life, walOpen, todo, wal, kept, call, histVars>>
    BY <1>8, Zenon DEF Recv
  <2>2. cmsg' \in logged
    BY <1>t, <2>1, HeadTailProperties DEF Traced, TypeOK
  <2>3. \A i \in DOMAIN queue' : queue'[i] \in logged
    BY <1>t, <2>1, HeadTailProperties DEF Traced, TypeOK
  <2> QED BY <1>t, <2>1, <2>2, <2>3, Zenon DEF Traced, MessagesOf
<1>9. CASE SkipNoPlugin
  BY <1>t, <1>9, Zenon DEF SkipNoPlugin, Traced, MessagesOf
<1>10. CASE Process
  <2>1. cmsg \in logged
    BY <1>t, <1>10, Zenon DEF Process, Traced
  <2> QED BY <1>t, <1>10, <2>1, Zenon DEF Process, ChainEnds, Traced, MessagesOf
<1>11. CASE MarkRead
  BY <1>t, <1>11, Zenon DEF MarkRead, Traced, MessagesOf
<1>12. CASE Truncate
  BY <1>t, <1>12, Zenon DEF Truncate, Traced, MessagesOf
<1>13. CASE WriteEntry
  <2>1. MessagesOf(wal' \cup kept') = MessagesOf(wal \cup kept)
    BY <1>13, WriteEntryKeeps, Zenon DEF TracedInv, MessagesOf
  <2> QED BY <1>t, <1>13, <2>1, Zenon DEF WriteEntry, Traced
<1>14. CASE MarkDone
  BY <1>t, <1>14, Zenon DEF MarkDone, Traced, MessagesOf
<1>15. CASE MarkFails
  BY <1>15, Zenon DEF MarkFails
<1>16. CASE Crash
  <2>1. /\ life' = "down" /\ queue' = <<>> /\ todo' = {} /\ cpc' = "recv"
        /\ kept' = {} /\ UNCHANGED <<wal, histVars>>
    BY <1>16, Zenon DEF Crash
  <2>2. \A n \in Messages : call'[n] # "sending" /\ (call'[n] = "new" => call[n] = "new")
    BY <1>t, <1>16, Zenon DEF Crash, TypeOK
  <2>3. logged \subseteq Messages
    BY <1>t, Zenon DEF TypeOK
  <2> QED BY <1>t, <2>1, <2>2, <2>3 DEF Traced, MessagesOf
<1>17. CASE UNCHANGED vars
  <2>1. UNCHANGED <<wal, consVars, queue, call, histVars, todo, walOpen, life>>
    BY <1>17, Zenon DEF vars
  <2> QED BY <1>t, <2>1, Zenon DEF Traced, MessagesOf
<1> QED
  BY <1>1, <1>2, <1>3, <1>4, <1>5, <1>6, <1>7, <1>8, <1>9, <1>10, <1>11, <1>12,
     <1>13, <1>14, <1>15, <1>16, <1>17, Zenon
  DEF Next, Start, Enqueue, Consume

\* Every step takes a message, finishes one, or cannot be seen in the inbox.
LEMMA InboxStep ==
  ASSUME ~CrashInRewrite, ~IoErrors, ~EarlyArrivals
  PROVE  InboxInv /\ [Next]_vars => [Inbox!Next]_<<Pending, finished>>
<1> SUFFICES ASSUME InboxInv, [Next]_vars
             PROVE  Inbox!Next \/ UNCHANGED <<Pending, finished>>
  OBVIOUS
<1>t. TypeOK /\ ConsumerHolds /\ Rewriting /\ Durable /\ Traced
  BY Zenon DEF InboxInv, DurableInv, RewriteInv, TypeInv
<1> USE DEF procVars, consVars, fileVars, histVars
<1>1. CASE Start \/ SetRebuildMode \/ CloseGate \/ ReopenGate
  <2>1. UNCHANGED <<wal, kept, finished>>
    BY <1>1, Zenon DEF Start, RegisterPlugins, PublishSender, InitInboundWal, LoadAll,
        TryReplayEntry, StartConsumer, SetSessionHandler, SetRebuildMode,
        CloseGate, ReopenGate
  <2> QED BY <2>1, Zenon DEF Pending, MessagesOf
<1>2. ASSUME NEW m \in Messages, EnqueueDirect(m)
      PROVE  FALSE
  BY <1>2, Zenon DEF EnqueueDirect, CanArrive
<1>3. ASSUME NEW m \in Messages, AppendWal(m)
      PROVE  Inbox!Take(m)
  <2>1. UNCHANGED <<kept, finished>> /\ call[m] = "new" /\ life = "up"
    BY <1>3, Zenon DEF AppendWal, CanArrive
  <2>2. wal' = wal \cup {[msg |-> m, pos |-> nextPos]}
    BY <1>t, <1>3, <2>1, Zenon DEF AppendWal, Traced
  <2>3. m \notin logged
    BY <1>t, <2>1, Zenon DEF Traced
  <2>4. m \notin Pending \cup finished
    BY <1>t, <2>3, Zenon DEF Traced, Pending
  <2>5. Pending' = Pending \cup {m}
    <3>1. MessagesOf(wal' \cup kept') = MessagesOf(wal \cup kept) \cup {m}
      <4> DEFINE new == [msg |-> m, pos |-> nextPos]
      <4>1. new.msg = m /\ wal' \cup kept' = (wal \cup kept) \cup {new}
        BY <2>1, <2>2, Zenon
      <4> HIDE DEF new
      <4> QED BY <4>1, Zenon DEF MessagesOf
    <3> QED BY <2>1, <2>4, <3>1, Zenon DEF Pending
  <2> QED BY <2>1, <2>4, <2>5, Zenon DEF Inbox!Take
<1>4. ASSUME NEW m \in Messages, TrySend(m)
      PROVE  UNCHANGED <<Pending, finished>>
  BY <1>4, Zenon DEF TrySend, Pending, MessagesOf
<1>5. CASE Recv \/ SkipNoPlugin \/ MarkDone
  BY <1>5, Zenon DEF Recv, SkipNoPlugin, MarkDone, Pending, MessagesOf
<1>6. CASE Process
  <2>1. UNCHANGED <<wal, kept>> /\ finished' = finished \cup {cmsg}
    BY <1>6, Zenon DEF Process, ChainEnds
  <2>2. cmsg \in logged /\ cmsg \in Messages
    BY <1>t, <1>6, Zenon DEF Process, Traced, ConsumerHolds
  <2>3. CASE cmsg \in finished
    BY <2>1, <2>3, Zenon DEF Pending, MessagesOf
  <2>4. CASE cmsg \notin finished
    <3>1. cmsg \in Pending
      BY <1>t, <2>2, <2>4, Zenon DEF Durable, Pending
    <3>2. Pending' = Pending \ {cmsg}
      BY <2>1, Zenon DEF Pending, MessagesOf
    <3>3. Inbox!Finish(cmsg)
      BY <2>1, <3>1, <3>2, Zenon DEF Inbox!Finish
    <3> QED BY <2>2, <3>3, Zenon DEF Inbox!Next
  <2> QED BY <2>3, <2>4, Zenon
<1>7. CASE MarkRead
  <2>1. wal' \cup kept' = wal \cup kept /\ UNCHANGED finished
    BY <1>t, <1>7, Zenon DEF MarkRead, Rewriting
  <2> QED BY <2>1, Zenon DEF Pending, MessagesOf
<1>8. CASE Truncate
  <2>1. /\ wal' = {} /\ kept' = kept /\ finished' = finished
        /\ kept = {e \in wal : e.msg # cmsg} /\ cmsg \in finished
    BY <1>t, <1>8, Zenon DEF Truncate, Rewriting
  <2>2. MessagesOf(wal' \cup kept') = MessagesOf(wal \cup kept) \ {cmsg}
    BY <2>1, Zenon DEF MessagesOf
  <2> QED BY <2>1, <2>2, Zenon DEF Pending
<1>9. CASE WriteEntry
  <2>1. wal' \cup kept' = wal \cup kept /\ UNCHANGED finished
    BY <1>9, WriteEntryKeeps, Zenon DEF WriteEntry, InboxInv, DurableInv
  <2> QED BY <2>1, Zenon DEF Pending, MessagesOf
<1>10. CASE MarkFails
  BY <1>10, Zenon DEF MarkFails
<1>11. CASE Crash
  <2>1. wal' \cup kept' = wal \cup kept /\ UNCHANGED finished
    BY <1>t, <1>11, Zenon DEF Crash, Rewriting, TypeOK, ConsumerPc
  <2> QED BY <2>1, Zenon DEF Pending, MessagesOf
<1>12. CASE UNCHANGED vars
  BY <1>12, Zenon DEF vars, Pending, MessagesOf
<1> QED
  BY <1>1, <1>2, <1>3, <1>4, <1>5, <1>6, <1>7, <1>8, <1>9, <1>10, <1>11, <1>12, Zenon
  DEF Next, Enqueue, Consume, Inbox!Next

\* If the file system works, no crash falls inside the rewrite and nothing
\* arrives before start_inbound_queue has returned, the queue is a reliable
\* inbox: each message is taken once, is pending until its chain has ended, and
\* nothing is processed that was not taken.
THEOREM InboxRefinement ==
  ASSUME ~CrashInRewrite, ~IoErrors, ~EarlyArrivals
  PROVE  Spec => ImplementsInbox
<1>1. Init => InboxInv /\ Inbox!Init
  BY DurableInit, TracedInit, Zenon DEF Init, InboxInv, Inbox!Init, Pending, MessagesOf
<1>2. InboxInv /\ [Next]_vars => InboxInv'
  BY DurableStep, TracedStep, Zenon DEF InboxInv, DurableInv, TracedInv
<1> QED
  BY <1>1, <1>2, InboxStep, PTL DEF Spec, ImplementsInbox, Inbox!Spec

-----------------------------------------------------------------------------
(* What the process holds in memory.                                       *)

LEMMA RangeAppend ==
  ASSUME NEW S, NEW q \in Seq(S), NEW x \in S
  PROVE  Range(Append(q, x)) = Range(q) \cup {x}
<1>1. /\ DOMAIN Append(q, x) = DOMAIN q \cup {Len(q) + 1}
      /\ \A i \in DOMAIN q : Append(q, x)[i] = q[i]
      /\ Append(q, x)[Len(q) + 1] = x
  BY AppendProperties
<1> QED BY <1>1, Zenon DEF Range

LEMMA RangeHeadTail ==
  ASSUME NEW S, NEW q \in Seq(S), q # <<>>
  PROVE  Range(q) = {Head(q)} \cup Range(Tail(q))
<1>1. /\ \A i \in DOMAIN Tail(q) : i + 1 \in DOMAIN q /\ Tail(q)[i] = q[i + 1]
      /\ \A i \in DOMAIN q : i = 1 \/ (i - 1 \in DOMAIN Tail(q) /\ Tail(q)[i - 1] = q[i])
      /\ 1 \in DOMAIN q /\ Head(q) = q[1]
  BY HeadTailProperties
<1> QED BY <1>1 DEF Range

\* A waiting consumer holds nothing, and one at the file a finished message.
Holding ==
  /\ cpc = "recv" => cmsg = NoMsg
  /\ cpc \in {"mark", "kept", "writing"} => cmsg \in finished

MemoryInv == TypeInv /\ Holding /\ AcceptedIsInMemory

LEMMA MemoryFrame ==
  ASSUME MemoryInv, UNCHANGED <<consVars, queue, stash, call, crashes>>,
         finished \subseteq finished'
  PROVE  Holding' /\ AcceptedIsInMemory'
  BY Zenon DEF MemoryInv, Holding, AcceptedIsInMemory, consVars

LEMMA MemoryStep == MemoryInv /\ [Next]_vars => MemoryInv'
<1> SUFFICES ASSUME MemoryInv, [Next]_vars
             PROVE  Holding' /\ AcceptedIsInMemory'
  BY TypeStep, Zenon DEF MemoryInv
<1>t. TypeOK /\ ConsumerHolds /\ Holding /\ AcceptedIsInMemory
  BY Zenon DEF MemoryInv, TypeInv
<1> USE DEF procVars, consVars, fileVars, histVars
<1>1. CASE RegisterPlugins \/ PublishSender \/ InitInboundWal \/ LoadAll
           \/ StartConsumer \/ SetSessionHandler \/ SetRebuildMode \/ CloseGate \/ ReopenGate
  BY <1>1, MemoryFrame, Zenon
  DEF RegisterPlugins, PublishSender, InitInboundWal, LoadAll, StartConsumer,
      SetSessionHandler, SetRebuildMode, CloseGate, ReopenGate
<1>2. CASE TryReplayEntry
  <2>1. /\ UNCHANGED <<consVars, stash, call, crashes, finished>>
        /\ todo # {} /\ (queue' = queue \/ queue' = Append(queue, First(todo).msg))
    BY <1>2, Zenon DEF TryReplayEntry
  <2>2. First(todo).msg \in Messages
    BY <1>t, <2>1, FirstLine, Zenon DEF TypeOK, Entry
  <2>3. Range(queue) \subseteq Range(queue')
    <3>1. CASE queue' = queue
      BY <3>1, Zenon
    <3>2. CASE queue' = Append(queue, First(todo).msg)
      <4>1. queue \in Seq(Messages)
        BY <1>t, Zenon DEF TypeOK
      <4>2. Range(queue') = Range(queue) \cup {First(todo).msg}
        BY <2>2, <3>2, <4>1, RangeAppend
      <4> QED BY <4>2, Zenon
    <3> QED BY <2>1, <3>1, <3>2, Zenon
  <2> QED BY <1>t, <2>1, <2>3, Zenon DEF Holding, AcceptedIsInMemory
<1>3. ASSUME NEW m \in Messages, EnqueueDirect(m)
      PROVE  Holding' /\ AcceptedIsInMemory'
  <2>1. /\ UNCHANGED <<consVars, queue, stash, crashes>>
        /\ call' = [call EXCEPT ![m] = "accepted"] /\ finished' = finished \cup {m}
    BY <1>3, Zenon DEF EnqueueDirect, ChainEnds
  <2>2. \A n \in Messages \ finished' : n \notin finished /\ call'[n] = call[n]
    BY <1>t, <2>1, Zenon DEF TypeOK
  <2> QED BY <1>t, <2>1, <2>2, Zenon DEF Holding, AcceptedIsInMemory
<1>4. ASSUME NEW m \in Messages, AppendWal(m)
      PROVE  Holding' /\ AcceptedIsInMemory'
  <2>1. /\ UNCHANGED <<consVars, queue, stash, crashes, finished>>
        /\ call' = [call EXCEPT ![m] = "sending"]
    BY <1>4, Zenon DEF AppendWal
  <2>2. \A n \in Messages : call'[n] = "sending" \/ call'[n] = call[n]
    BY <1>t, <2>1, Zenon DEF TypeOK
  <2> QED BY <1>t, <2>1, <2>2, Zenon DEF Holding, AcceptedIsInMemory
<1>5. ASSUME NEW m \in Messages, TrySend(m)
      PROVE  Holding' /\ AcceptedIsInMemory'
  <2>1. UNCHANGED <<consVars, crashes, finished>>
    BY <1>5, Zenon DEF TrySend
  <2>2. CASE queue' = Append(queue, m) /\ UNCHANGED stash
             /\ call' = [call EXCEPT ![m] = "accepted"]
    <3>1. Range(queue') = Range(queue) \cup {m}
      BY <1>t, <2>2, RangeAppend DEF TypeOK
    <3>2. call'[m] = "accepted" /\ \A n \in Messages \ {m} : call'[n] = call[n]
      BY <1>t, <2>2, Zenon DEF TypeOK
    <3> QED BY <1>t, <2>1, <2>2, <3>1, <3>2, Zenon DEF Holding, AcceptedIsInMemory
  <2>3. CASE stash' = Append(stash, m) /\ UNCHANGED queue
             /\ call' = [call EXCEPT ![m] = "stashed"]
    <3>1. Range(stash') = Range(stash) \cup {m}
      BY <1>t, <2>3, RangeAppend DEF TypeOK
    <3>2. call'[m] = "stashed" /\ \A n \in Messages \ {m} : call'[n] = call[n]
      BY <1>t, <2>3, Zenon DEF TypeOK
    <3> QED BY <1>t, <2>1, <2>3, <3>1, <3>2, Zenon DEF Holding, AcceptedIsInMemory
  <2>4. CASE UNCHANGED <<queue, stash>> /\ call' = [call EXCEPT ![m] = "rejected"]
    <3>1. \A n \in Messages : call'[n] = "rejected" \/ call'[n] = call[n]
      BY <1>t, <2>4, Zenon DEF TypeOK
    <3> QED BY <1>t, <2>1, <2>4, <3>1, Zenon DEF Holding, AcceptedIsInMemory
  <2> QED BY <1>5, <2>2, <2>3, <2>4, Zenon DEF TrySend
<1>6. CASE Recv
  <2>1. /\ queue # <<>> /\ cmsg' = Head(queue) /\ queue' = Tail(queue)
        /\ cpc = "recv" /\ cpc' = "process"
        /\ UNCHANGED <<stash, call, crashes, finished>>
    BY <1>6, Zenon DEF Recv
  <2>2. Range(queue) = {cmsg'} \cup Range(queue')
    BY <1>t, <2>1, RangeHeadTail, Zenon DEF TypeOK
  <2>3. cmsg = NoMsg
    BY <1>t, <2>1, Zenon DEF Holding
  <2> QED BY <1>t, <2>1, <2>2, <2>3, ConstantsAssumption, Zenon DEF Holding, AcceptedIsInMemory
<1>7. CASE SkipNoPlugin
  <2>1. crashes > 0 /\ crashes' = crashes
    BY <1>7, Zenon DEF SkipNoPlugin, NoPlugin
  <2>2. cpc' = "recv" /\ cmsg' = NoMsg
    BY <1>7, Zenon DEF SkipNoPlugin
  <2>3. crashes' # 0
    BY <2>1
  <2> QED BY <2>2, <2>3, Zenon DEF Holding, AcceptedIsInMemory
<1>8. CASE Process
  <2>1. /\ finished' = finished \cup {cmsg} /\ UNCHANGED <<queue, stash, call, crashes>>
        /\ (cpc' = "mark" /\ cmsg' = cmsg) \/ (cpc' = "recv" /\ cmsg' = NoMsg)
    BY <1>8, Zenon DEF Process, ChainEnds
  <2> QED BY <1>t, <2>1, Zenon DEF Holding, AcceptedIsInMemory
<1>9. CASE MarkRead \/ Truncate \/ WriteEntry
  <2>1. /\ UNCHANGED <<queue, stash, call, crashes, finished, cmsg>>
        /\ cpc \in {"mark", "kept", "writing"} /\ cpc' # "recv"
    BY <1>9, Zenon DEF MarkRead, Truncate, WriteEntry
  <2> QED BY <1>t, <2>1, Zenon DEF Holding, AcceptedIsInMemory
<1>10. CASE MarkDone \/ MarkFails
  <2>1. /\ UNCHANGED <<queue, stash, call, crashes, finished>>
        /\ cpc \in {"mark", "kept", "writing"} /\ cpc' = "recv" /\ cmsg' = NoMsg
    BY <1>10, Zenon DEF MarkDone, MarkFails
  <2> QED BY <1>t, <2>1, Zenon DEF Holding, AcceptedIsInMemory
<1>11. CASE Crash
  <2>1. crashes' # 0
    <3>1. crashes \in Nat
      BY <1>t, ConstantsAssumption DEF TypeOK
    <3>2. crashes' = crashes + 1
      BY <1>11, Zenon DEF Crash
    <3> QED BY <3>1, <3>2
  <2>2. cpc' = "recv" /\ cmsg' = NoMsg
    BY <1>11, Zenon DEF Crash
  <2> QED BY <2>1, <2>2, Zenon DEF Holding, AcceptedIsInMemory
<1>12. CASE UNCHANGED vars
  BY <1>12, MemoryFrame, Zenon DEF vars
<1> QED
  BY <1>1, <1>2, <1>3, <1>4, <1>5, <1>6, <1>7, <1>8, <1>9, <1>10, <1>11, <1>12, Zenon
  DEF Next, Start, Enqueue, Consume

\* As long as the process lives, whatever file operations fail and whenever the
\* plugins begin to deliver, an accepted message that is not finished is in the
\* channel or with the consumer, and a stashed one in the stash.
THEOREM AcceptedStaysInMemory == Spec => []AcceptedIsInMemory
<1>1. Init => MemoryInv
  BY TypeInit, Zenon DEF Init, MemoryInv, Holding, AcceptedIsInMemory
<1>2. MemoryInv => AcceptedIsInMemory
  BY Zenon DEF MemoryInv
<1> QED
  BY <1>1, <1>2, MemoryStep, PTL DEF Spec

-----------------------------------------------------------------------------
(* The busy reply.                                                         *)

\* In the first process life the file is empty until the consumer runs, so that
\* nothing is replayed, and what is queued, held or delivered was accepted.
Answered ==
  crashes = 0 =>
    /\ todo = {} /\ (life # "up" => wal = {} /\ cpc = "recv")
    /\ \A m \in Messages :
          m \in Range(queue) \/ cmsg = m \/ m \in delivered => call[m] = "accepted"

AnsweredInv == TypeInv /\ Answered

LEMMA AnsweredFrame ==
  ASSUME AnsweredInv, UNCHANGED <<cmsg, queue, todo, call, crashes, delivered>>,
         life' # "up" => life # "up" /\ wal' = wal /\ cpc' = cpc
  PROVE  Answered'
  BY Zenon DEF AnsweredInv, Answered

LEMMA AnsweredStep ==
  ASSUME ~EarlyArrivals
  PROVE  AnsweredInv /\ [Next]_vars => AnsweredInv'
<1> SUFFICES ASSUME AnsweredInv, [Next]_vars
             PROVE  Answered'
  BY TypeStep, Zenon DEF AnsweredInv
<1>t. TypeOK /\ ConsumerHolds /\ Answered
  BY Zenon DEF AnsweredInv, TypeInv
<1> USE DEF procVars, consVars, fileVars, histVars
<1>1. CASE RegisterPlugins \/ PublishSender \/ InitInboundWal \/ StartConsumer
           \/ SetSessionHandler \/ SetRebuildMode \/ CloseGate \/ ReopenGate
  BY <1>1, AnsweredFrame, Zenon
  DEF RegisterPlugins, PublishSender, InitInboundWal, StartConsumer,
      SetSessionHandler, SetRebuildMode, CloseGate, ReopenGate
<1>2. CASE LoadAll
  <2>1. /\ UNCHANGED <<cpc, cmsg, queue, call, crashes, delivered, wal>>
        /\ life = "walset" /\ todo' \subseteq wal
    BY <1>2, Zenon DEF LoadAll
  <2> QED BY <1>t, <2>1, Zenon DEF Answered
<1>3. CASE TryReplayEntry
  BY <1>t, <1>3, Zenon DEF TryReplayEntry, Answered
<1>4. ASSUME NEW m \in Messages, EnqueueDirect(m)
      PROVE  FALSE
  BY <1>4, Zenon DEF EnqueueDirect, CanArrive
<1>5. ASSUME NEW m \in Messages, AppendWal(m)
      PROVE  Answered'
  <2>1. /\ UNCHANGED <<life, cpc, cmsg, queue, todo, crashes, delivered>>
        /\ life = "up" /\ call[m] = "new" /\ call' = [call EXCEPT ![m] = "sending"]
    BY <1>5, Zenon DEF AppendWal, CanArrive
  <2>2. \A n \in Messages : call[n] = "accepted" => call'[n] = "accepted"
    BY <1>t, <2>1, Zenon DEF TypeOK
  <2> QED BY <1>t, <2>1, <2>2, Zenon DEF Answered
<1>6. ASSUME NEW m \in Messages, TrySend(m)
      PROVE  Answered'
  <2>1. /\ UNCHANGED <<life, cpc, cmsg, todo, crashes, delivered, wal>> /\ call[m] = "sending"
    BY <1>6, Zenon DEF TrySend
  <2>2. CASE queue' = Append(queue, m) /\ call' = [call EXCEPT ![m] = "accepted"]
    <3>1. Range(queue') = Range(queue) \cup {m}
      BY <1>t, <2>2, RangeAppend DEF TypeOK
    <3>2. call'[m] = "accepted" /\ \A n \in Messages \ {m} : call'[n] = call[n]
      BY <1>t, <2>2, Zenon DEF TypeOK
    <3> QED BY <1>t, <2>1, <3>1, <3>2, Zenon DEF Answered
  <2>3. CASE queue' = queue /\ \E v \in {"stashed", "rejected"} : call' = [call EXCEPT ![m] = v]
    <3>1. \A n \in Messages : call[n] = "accepted" => call'[n] = "accepted"
      BY <1>t, <2>1, <2>3, Zenon DEF TypeOK
    <3> QED BY <1>t, <2>1, <2>3, <3>1, Zenon DEF Answered
  <2> QED BY <1>6, <2>2, <2>3, Zenon DEF TrySend
<1>7. CASE Recv
  <2>1. /\ queue # <<>> /\ cmsg' = Head(queue) /\ queue' = Tail(queue) /\ life = "up"
        /\ UNCHANGED <<life, todo, call, crashes, delivered, wal>>
    BY <1>7, Zenon DEF Recv
  <2>2. Range(queue) = {cmsg'} \cup Range(queue')
    BY <1>t, <2>1, RangeHeadTail, Zenon DEF TypeOK
  <2> QED BY <1>t, <2>1, <2>2, Zenon DEF Answered
<1>8. CASE SkipNoPlugin \/ MarkDone \/ MarkFails
  <2>1. /\ UNCHANGED <<life, queue, todo, call, crashes, delivered, wal>>
        /\ cpc' = "recv" /\ cmsg' = NoMsg
    BY <1>8, Zenon DEF SkipNoPlugin, MarkDone, MarkFails
  <2> QED BY <1>t, <2>1, ConstantsAssumption, Zenon DEF Answered
<1>9. CASE Process
  <2>1. /\ UNCHANGED <<life, queue, todo, call, crashes, wal>> /\ cpc = "process"
        /\ cmsg' \in {cmsg, NoMsg}
        /\ delivered' \subseteq delivered \cup {cmsg}
    BY <1>9, Zenon DEF Process, ChainEnds
  <2> QED BY <1>t, <2>1, ConstantsAssumption, Zenon DEF Answered
<1>10. CASE MarkRead \/ Truncate \/ WriteEntry
  <2>1. /\ UNCHANGED <<life, cmsg, queue, todo, call, crashes, delivered>>
        /\ cpc # "recv"
    BY <1>10, Zenon DEF MarkRead, Truncate, WriteEntry
  <2> QED BY <1>t, <2>1, Zenon DEF Answered
<1>11. CASE Crash
  <2>1. crashes' # 0
    <3>1. crashes \in Nat
      BY <1>t, ConstantsAssumption DEF TypeOK
    <3>2. crashes' = crashes + 1
      BY <1>11, Zenon DEF Crash
    <3> QED BY <3>1, <3>2
  <2> QED BY <2>1, Zenon DEF Answered
<1>12. CASE UNCHANGED vars
  BY <1>12, AnsweredFrame, Zenon DEF vars
<1> QED
  BY <1>1, <1>2, <1>3, <1>4, <1>5, <1>6, <1>7, <1>8, <1>9, <1>10, <1>11, <1>12, Zenon
  DEF Next, Start, Enqueue, Consume

\* In a process that has not crashed, if nothing arrives before
\* start_inbound_queue has returned, a message answered with the busy reply is
\* never handed to the session handler, whatever file operations fail.
THEOREM BusyReplyIsFinal ==
  ASSUME ~EarlyArrivals
  PROVE  Spec => []RejectedIsFinal
<1>1. Init => AnsweredInv
  <2> SUFFICES ASSUME Init PROVE Answered
    BY TypeInit, Zenon DEF AnsweredInv
  <2>1. Range(queue) = {} /\ cmsg \notin Messages /\ delivered = {}
    BY ConstantsAssumption DEF Init, Range
  <2> QED BY <2>1, Zenon DEF Init, Answered
<1>2. AnsweredInv => RejectedIsFinal
  BY Zenon DEF AnsweredInv, Answered, RejectedIsFinal
<1> QED
  BY <1>1, <1>2, AnsweredStep, PTL DEF Spec

-----------------------------------------------------------------------------
(* The file is cleaned.                                                    *)

\* With the histories of the file and of the first process life.
CleanInv == InboxInv /\ Answered /\ DoneIsDeleted

LEMMA CleanFrame ==
  ASSUME CleanInv, UNCHANGED <<wal, kept, cpc, cmsg, crashes, finished>>
  PROVE  DoneIsDeleted'
  BY Zenon DEF CleanInv, DoneIsDeleted, MessagesOf

LEMMA CleanStep ==
  ASSUME ~CrashInRewrite, ~IoErrors, ~EarlyArrivals
  PROVE  CleanInv /\ [Next]_vars => CleanInv'
<1> SUFFICES ASSUME CleanInv, [Next]_vars
             PROVE  DoneIsDeleted'
  BY DurableStep, TracedStep, AnsweredStep, Zenon
  DEF CleanInv, InboxInv, TracedInv, DurableInv, RewriteInv, AnsweredInv
<1>t. /\ TypeOK /\ Rewriting /\ Traced /\ Answered /\ DoneIsDeleted /\ RewriteInv
  BY Zenon DEF CleanInv, InboxInv, DurableInv, RewriteInv, TypeInv
<1> USE DEF procVars, consVars, fileVars, histVars
<1>1. CASE Start \/ SetRebuildMode \/ CloseGate \/ ReopenGate
  BY <1>1, CleanFrame, Zenon
  DEF Start, RegisterPlugins, PublishSender, InitInboundWal, LoadAll,
      TryReplayEntry, StartConsumer, SetSessionHandler, SetRebuildMode,
      CloseGate, ReopenGate
<1>2. ASSUME NEW m \in Messages, EnqueueDirect(m)
      PROVE  FALSE
  BY <1>2, Zenon DEF EnqueueDirect, CanArrive
<1>3. ASSUME NEW m \in Messages, AppendWal(m)
      PROVE  DoneIsDeleted'
  <2> DEFINE new == [msg |-> m, pos |-> nextPos]
  <2>1. /\ UNCHANGED <<kept, cpc, cmsg, crashes, finished>>
        /\ call[m] = "new" /\ (wal' = wal \/ wal' = wal \cup {new})
    BY <1>3, Zenon DEF AppendWal, CanArrive
  <2>2. new.msg = m
    OBVIOUS
  <2>3. m \notin finished
    BY <1>t, <2>1, Zenon DEF Traced
  <2> HIDE DEF new
  <2>4. finished' \cap MessagesOf(wal' \cup kept') \subseteq finished \cap MessagesOf(wal \cup kept)
    BY <2>1, <2>2, <2>3, Zenon DEF MessagesOf
  <2> QED BY <1>t, <2>1, <2>4, Zenon DEF DoneIsDeleted
<1>4. ASSUME NEW m \in Messages, TrySend(m)
      PROVE  DoneIsDeleted'
  BY <1>4, CleanFrame, Zenon DEF TrySend
<1>5. CASE Recv \/ SkipNoPlugin \/ MarkDone
  <2>1. /\ UNCHANGED <<wal, kept, crashes, finished>>
        /\ cpc \notin {"mark", "kept"}
    BY <1>5, Zenon DEF Recv, SkipNoPlugin, MarkDone
  <2>2. MessagesOf(wal' \cup kept') = MessagesOf(wal \cup kept)
    BY <2>1, Zenon
  <2> QED BY <1>t, <2>1, <2>2, Zenon DEF DoneIsDeleted
<1>6. CASE Process
  <2>1. /\ cpc = "process" /\ finished' = finished \cup {cmsg}
        /\ UNCHANGED <<wal, kept, crashes, life>>
        /\ walOpen => cpc' = "mark" /\ cmsg' = cmsg
    BY <1>6, Zenon DEF Process, ChainEnds
  <2>2. MessagesOf(wal' \cup kept') = MessagesOf(wal \cup kept)
    BY <2>1, Zenon
  <2>3. crashes = 0 => walOpen
    BY <1>t, <2>1, Zenon DEF Answered, Traced
  <2>4. crashes = 0 => finished \cap MessagesOf(wal \cup kept) = {}
    BY <1>t, <2>1, Zenon DEF DoneIsDeleted
  <2> QED BY <2>1, <2>2, <2>3, <2>4, Zenon DEF DoneIsDeleted
<1>7. CASE MarkRead
  <2>1. /\ UNCHANGED <<wal, cmsg, crashes, finished>> /\ kept' \subseteq wal
        /\ cpc = "mark" /\ cpc' = "kept"
    BY <1>7, Zenon DEF MarkRead
  <2>2. MessagesOf(wal' \cup kept') \subseteq MessagesOf(wal \cup kept)
    BY <2>1, Zenon DEF MessagesOf
  <2> QED BY <1>t, <2>1, <2>2, Zenon DEF DoneIsDeleted
<1>8. CASE Truncate
  <2>1. /\ UNCHANGED <<kept, cmsg, crashes, finished>> /\ wal' = {}
        /\ cpc = "kept" /\ kept = {e \in wal : e.msg # cmsg}
    BY <1>t, <1>8, Zenon DEF Truncate, Rewriting
  <2>2. /\ MessagesOf(wal' \cup kept') \subseteq MessagesOf(wal \cup kept)
        /\ cmsg \notin MessagesOf(wal' \cup kept')
    BY <2>1, Zenon DEF MessagesOf
  <2> QED BY <1>t, <2>1, <2>2, Zenon DEF DoneIsDeleted
<1>9. CASE WriteEntry
  <2>1. UNCHANGED <<cpc, cmsg, crashes, finished>>
    BY <1>9, Zenon DEF WriteEntry
  <2>2. MessagesOf(wal' \cup kept') = MessagesOf(wal \cup kept)
    BY <1>t, <1>9, WriteEntryKeeps, Zenon
  <2> QED BY <1>t, <2>1, <2>2, Zenon DEF DoneIsDeleted
<1>10. CASE MarkFails
  BY <1>10, Zenon DEF MarkFails
<1>11. CASE Crash
  <2>1. crashes' # 0
    <3>1. crashes \in Nat
      BY <1>t, ConstantsAssumption DEF TypeOK
    <3>2. crashes' = crashes + 1
      BY <1>11, Zenon DEF Crash
    <3> QED BY <3>1, <3>2
  <2> QED BY <2>1, Zenon DEF DoneIsDeleted
<1>12. CASE UNCHANGED vars
  BY <1>12, CleanFrame, Zenon DEF vars
<1> QED
  BY <1>1, <1>2, <1>3, <1>4, <1>5, <1>6, <1>7, <1>8, <1>9, <1>10, <1>11, <1>12, Zenon
  DEF Next, Enqueue, Consume

\* In a process that has not crashed, with a working file system and no arrival
\* before start_inbound_queue has returned, a finished message is in the file
\* only while the consumer is deleting it.
THEOREM FinishedIsDeleted ==
  ASSUME ~CrashInRewrite, ~IoErrors, ~EarlyArrivals
  PROVE  Spec => []DoneIsDeleted
<1>1. Init => CleanInv
  <2> SUFFICES ASSUME Init PROVE Answered /\ DoneIsDeleted
    BY DurableInit, TracedInit, Zenon DEF CleanInv, InboxInv
  <2>1. Range(queue) = {} /\ cmsg \notin Messages /\ delivered = {}
    BY ConstantsAssumption DEF Init, Range
  <2>2. Answered
    BY <2>1, Zenon DEF Init, Answered
  <2> QED BY <2>2, Zenon DEF Init, DoneIsDeleted
<1>2. CleanInv => DoneIsDeleted
  BY Zenon DEF CleanInv
<1> QED
  BY <1>1, <1>2, CleanStep, PTL DEF Spec

-----------------------------------------------------------------------------
(* Redeliveries.                                                           *)

InFile == MessagesOf(wal \cup kept)

\* The consumer is removing its message from the file.
Removing == cpc \in {"mark", "kept", "writing"}

\* A message is in one place at a time: in an enqueue call, in the list to be
\* replayed, once in the channel, or with the consumer.  Only a started consumer
\* and a started queue hold anything.
OnePlace ==
  /\ cpc = "recv" => cmsg = NoMsg
  /\ life # "up" => cpc = "recv" /\ \A m \in Messages : call[m] # "sending"
  /\ life \notin {"replay", "up"} => queue = <<>>
  /\ life # "replay" => todo = {}
  /\ \A i, j \in DOMAIN queue : queue[i] = queue[j] => i = j
  /\ cpc # "recv" => cmsg \notin Range(queue)
  /\ \A e, f \in todo : e.msg = f.msg => e = f
  /\ \A e \in todo : e.msg \notin Range(queue)
  /\ \A m \in Messages :
       call[m] = "sending" => m \notin Range(queue) /\ m # cmsg /\ m \notin delivered

\* A delivered message that will be processed again is still in the file, and
\* one that the consumer is removing leaves it with the truncation.
Recorded ==
  /\ delivered \subseteq logged
  /\ cpc = "writing" => cmsg \notin InFile
  /\ \A m \in delivered :
       m \in Range(queue) \/ m \in MessagesOf(todo) \/ (cpc = "process" /\ cmsg = m)
         => m \in InFile

\* The delivered messages that a restart can bring back, apart from the one that
\* is being removed: each of them is owed to a crash that no redelivery has used
\* up.
Stale == {m \in delivered \cap InFile : ~(Removing /\ cmsg = m)}

Owed == IsFiniteSet(Stale) /\ redelivered + Cardinality(Stale) <= crashes

RedeliveryInv == TracedInv /\ OnePlace /\ Recorded /\ Owed

LEMMA RedeliveryInit == Init => RedeliveryInv
<1> SUFFICES ASSUME Init PROVE OnePlace /\ Recorded /\ Owed
  BY RewriteInit, TracedInit, Zenon DEF RedeliveryInv, TracedInv
<1>1. Range(queue) = {}
  BY DEF Init, Range
<1>2. Stale = {}
  BY Zenon DEF Init, Stale
<1>3. IsFiniteSet(Stale) /\ Cardinality(Stale) = 0
  BY <1>2, FS_EmptySet, Zenon
<1> QED BY <1>1, <1>3 DEF Init, OnePlace, Recorded, Owed, MessagesOf

\* Fewer messages are owed when nothing is redelivered.
LEMMA OwedShrinks ==
  ASSUME TypeOK, Owed, Stale' \subseteq Stale, UNCHANGED <<redelivered, crashes>>
  PROVE  Owed'
<1>1. IsFiniteSet(Stale') /\ Cardinality(Stale') <= Cardinality(Stale)
  BY FS_Subset, Zenon DEF Owed
<1>2. Cardinality(Stale) \in Nat /\ Cardinality(Stale') \in Nat
  BY <1>1, FS_CardinalityType, Zenon DEF Owed
<1> QED BY <1>1, <1>2, ConstantsAssumption DEF Owed, TypeOK

\* The steps that leave the file, the calls and the deliveries alone.
LEMMA StaleFrame ==
  ASSUME UNCHANGED <<wal, kept, cpc, cmsg, delivered>>
  PROVE  Stale' = Stale /\ InFile' = InFile
  BY Zenon DEF Stale, InFile, Removing, MessagesOf

\* Appending a message that is not in the channel.
LEMMA AppendOnce ==
  ASSUME NEW q \in Seq(Messages), NEW x \in Messages, x \notin Range(q),
         \A i, j \in DOMAIN q : q[i] = q[j] => i = j
  PROVE  \A i, j \in DOMAIN Append(q, x) : Append(q, x)[i] = Append(q, x)[j] => i = j
<1>1. /\ DOMAIN Append(q, x) = DOMAIN q \cup {Len(q) + 1}
      /\ \A i \in DOMAIN q : Append(q, x)[i] = q[i]
      /\ Append(q, x)[Len(q) + 1] = x
  BY AppendProperties
<1>2. \A i \in DOMAIN q : q[i] # x
  BY Zenon DEF Range
<1> QED BY <1>1, <1>2, Zenon

\* Taking the head of the channel: it is nowhere in the rest.
LEMMA HeadOnce ==
  ASSUME NEW q \in Seq(Messages), q # <<>>,
         \A i, j \in DOMAIN q : q[i] = q[j] => i = j
  PROVE  /\ Head(q) \notin Range(Tail(q))
         /\ \A i, j \in DOMAIN Tail(q) : Tail(q)[i] = Tail(q)[j] => i = j
<1>1. /\ \A i \in DOMAIN Tail(q) : i \in Nat /\ i + 1 \in DOMAIN q /\ Tail(q)[i] = q[i + 1]
      /\ 1 \in DOMAIN q /\ Head(q) = q[1]
  BY HeadTailProperties
<1>2. \A i \in DOMAIN Tail(q) : i # 0
  BY HeadTailProperties
<1> QED BY <1>1, <1>2 DEF Range

\* Each step leaves a message in one place.
LEMMA OnePlaceStep ==
  ASSUME ~IoErrors, ~EarlyArrivals, RedeliveryInv, [Next]_vars
  PROVE  OnePlace'
<1>t. TypeOK /\ ConsumerHolds /\ Rewriting /\ Traced /\ OnePlace /\ Recorded
  BY Zenon DEF RedeliveryInv, TracedInv, RewriteInv, TypeInv
<1>q. queue \in Seq(Messages)
  BY <1>t, Zenon DEF TypeOK
<1> USE DEF procVars, consVars, fileVars, histVars
<1>1. CASE RegisterPlugins \/ PublishSender \/ InitInboundWal \/ StartConsumer
           \/ SetSessionHandler \/ SetRebuildMode \/ CloseGate \/ ReopenGate
  <2>1. /\ UNCHANGED <<queue, todo, call, cpc, cmsg, delivered>>
        /\ life' = "up" => life = "up" \/ todo = {}
        /\ life' # "up" => life # "up"
        /\ life = "replay" => todo = {} \/ life' = "replay"
        /\ life' \notin {"replay", "up"} => life \notin {"replay", "up"}
    BY <1>1, Zenon DEF RegisterPlugins, PublishSender, InitInboundWal, StartConsumer,
        SetSessionHandler, SetRebuildMode, CloseGate, ReopenGate
  <2> QED BY <1>t, <2>1, Zenon DEF OnePlace
<1>2. CASE LoadAll
  <2>1. /\ UNCHANGED <<queue, call, cpc, cmsg, delivered>>
        /\ life = "walset" /\ life' = "replay"
        /\ todo' \subseteq {e \in wal : \A f \in wal : f.msg = e.msg => e.pos <= f.pos}
    BY <1>2, Zenon DEF LoadAll
  <2>2. \A e, f \in todo' : e.msg = f.msg => e = f
    <3> SUFFICES ASSUME NEW e \in todo', NEW f \in todo', e.msg = f.msg
                 PROVE  e = f
      OBVIOUS
    <3>1. e \in Entry /\ f \in Entry /\ e.pos <= f.pos /\ f.pos <= e.pos
      BY <1>t, <2>1, Zenon DEF TypeOK
    <3>2. e.pos = f.pos
      BY <3>1 DEF Entry
    <3> QED BY <3>1, <3>2 DEF Entry
  <2>3. queue = <<>>
    BY <1>t, <2>1, Zenon DEF OnePlace
  <2>4. Range(queue) = {}
    BY <2>3 DEF Range
  <2> QED BY <1>t, <2>1, <2>2, <2>4, Zenon DEF OnePlace
<1>3. CASE TryReplayEntry
  <2> DEFINE e == First(todo)
  <2>1. /\ UNCHANGED <<life, call, cpc, cmsg, delivered>>
        /\ life = "replay" /\ todo # {} /\ todo' = todo \ {e}
        /\ queue' = queue \/ queue' = Append(queue, e.msg)
    BY <1>3, Zenon DEF TryReplayEntry
  <2>2. e \in todo /\ e.msg \in Messages
    BY <1>t, <2>1, FirstLine, Zenon DEF TypeOK, Entry
  <2>3. e.msg \notin Range(queue) /\ \A f \in todo' : f.msg # e.msg
    BY <1>t, <2>1, <2>2, Zenon DEF OnePlace
  <2> HIDE DEF e
  <2>4. /\ \A i, j \in DOMAIN queue' : queue'[i] = queue'[j] => i = j
        /\ Range(queue') \subseteq Range(queue) \cup {e.msg}
    <3>1. CASE queue' = queue
      BY <1>t, <3>1, Zenon DEF OnePlace
    <3>2. CASE queue' = Append(queue, e.msg)
      BY <1>t, <1>q, <2>2, <2>3, <3>2, AppendOnce, RangeAppend DEF OnePlace
    <3> QED BY <2>1, <3>1, <3>2, Zenon
  <2> QED BY <1>t, <2>1, <2>3, <2>4, Zenon DEF OnePlace
<1>4. ASSUME NEW m \in Messages, EnqueueDirect(m)
      PROVE  FALSE
  BY <1>4, Zenon DEF EnqueueDirect, CanArrive
<1>5. ASSUME NEW m \in Messages, AppendWal(m)
      PROVE  OnePlace'
  <2>1. /\ UNCHANGED <<life, queue, todo, cpc, cmsg, delivered>>
        /\ life = "up" /\ call[m] = "new" /\ call' = [call EXCEPT ![m] = "sending"]
    BY <1>5, Zenon DEF AppendWal, CanArrive
  <2>2. m \notin logged
    BY <1>t, <2>1, Zenon DEF Traced
  <2>3. m \notin Range(queue) /\ m \notin delivered
    BY <1>t, <2>2, Zenon DEF Traced, Recorded, Range
  <2>4. cpc # "recv" => cmsg # m
    BY <1>t, <2>2, Zenon DEF Traced
  <2>5. \A n \in Messages \ {m} : call'[n] = call[n]
    BY <1>t, <2>1, Zenon DEF TypeOK
  <2> QED BY <1>t, <2>1, <2>3, <2>4, <2>5, ConstantsAssumption, Zenon DEF OnePlace
<1>6. ASSUME NEW m \in Messages, TrySend(m)
      PROVE  OnePlace'
  <2>1. /\ UNCHANGED <<life, todo, cpc, cmsg, delivered>> /\ call[m] = "sending"
        /\ queue' = queue \/ queue' = Append(queue, m)
        /\ \E v \in {"accepted", "stashed", "rejected"} : call' = [call EXCEPT ![m] = v]
    BY <1>6, Zenon DEF TrySend
  <2>2. life = "up" /\ m \notin Range(queue) /\ m # cmsg
    BY <1>t, <2>1, Zenon DEF OnePlace
  <2>3. \A n \in Messages : call'[n] = "sending" => n # m /\ call[n] = "sending"
    BY <1>t, <2>1, Zenon DEF TypeOK
  <2>4. /\ \A i, j \in DOMAIN queue' : queue'[i] = queue'[j] => i = j
        /\ Range(queue') \subseteq Range(queue) \cup {m}
    <3>1. CASE queue' = queue
      BY <1>t, <3>1, Zenon DEF OnePlace
    <3>2. CASE queue' = Append(queue, m)
      BY <1>t, <1>q, <2>2, <3>2, AppendOnce, RangeAppend DEF OnePlace
    <3> QED BY <2>1, <3>1, <3>2, Zenon
  <2> QED BY <1>t, <2>1, <2>2, <2>3, <2>4, Zenon DEF OnePlace
<1>7. CASE Recv
  <2>1. /\ UNCHANGED <<life, todo, call, delivered>> /\ life = "up" /\ queue # <<>>
        /\ cmsg' = Head(queue) /\ queue' = Tail(queue) /\ cpc' = "process"
    BY <1>7, Zenon DEF Recv
  <2>2. /\ cmsg' \notin Range(queue')
        /\ \A i, j \in DOMAIN queue' : queue'[i] = queue'[j] => i = j
    BY <1>t, <1>q, <2>1, HeadOnce, Zenon DEF OnePlace
  <2>3. Range(queue) = {cmsg'} \cup Range(queue')
    BY <1>q, <2>1, RangeHeadTail, Zenon
  <2> QED BY <1>t, <2>1, <2>2, <2>3, Zenon DEF OnePlace
<1>8. CASE SkipNoPlugin \/ MarkDone \/ MarkFails
  <2>1. /\ UNCHANGED <<life, queue, todo, call, delivered>>
        /\ cpc' = "recv" /\ cmsg' = NoMsg
    BY <1>8, Zenon DEF SkipNoPlugin, MarkDone, MarkFails
  <2> QED BY <1>t, <2>1, ConstantsAssumption, Zenon DEF OnePlace
<1>9. CASE Process
  <2>1. /\ UNCHANGED <<life, queue, todo, call>> /\ cpc = "process"
        /\ (cpc' = "mark" /\ cmsg' = cmsg) \/ (cpc' = "recv" /\ cmsg' = NoMsg)
        /\ delivered' \subseteq delivered \cup {cmsg}
    BY <1>9, Zenon DEF Process, ChainEnds
  <2> QED BY <1>t, <2>1, ConstantsAssumption, Zenon DEF OnePlace
<1>10. CASE MarkRead \/ Truncate \/ WriteEntry
  <2>1. /\ UNCHANGED <<life, queue, todo, call, cmsg, delivered>>
        /\ cpc # "recv" /\ cpc' # "recv"
    BY <1>10, Zenon DEF MarkRead, Truncate, WriteEntry
  <2> QED BY <1>t, <2>1, Zenon DEF OnePlace
<1>11. CASE Crash
  <2>1. /\ queue' = <<>> /\ todo' = {} /\ cpc' = "recv" /\ cmsg' = NoMsg
        /\ life' = "down"
        /\ call' = [m \in Messages |-> IF call[m] = "sending" THEN "cut" ELSE call[m]]
    BY <1>11, Zenon DEF Crash
  <2>2. \A m \in Messages : call'[m] # "sending"
    BY <2>1, Zenon
  <2>3. Range(queue') = {}
    BY <2>1 DEF Range
  <2> QED BY <2>1, <2>2, <2>3 DEF OnePlace
<1>12. CASE UNCHANGED vars
  BY <1>t, <1>12, Zenon DEF vars, OnePlace
<1> QED
  BY <1>1, <1>2, <1>3, <1>4, <1>5, <1>6, <1>7, <1>8, <1>9, <1>10, <1>11, <1>12, Zenon
  DEF Next, Start, Enqueue, Consume

\* Each step keeps the file's record of the delivered messages that are to be
\* processed again.
LEMMA RecordedStep ==
  ASSUME ~IoErrors, ~EarlyArrivals, RedeliveryInv, [Next]_vars
  PROVE  Recorded'
<1>t. TypeOK /\ ConsumerHolds /\ Rewriting /\ Traced /\ OnePlace /\ Recorded /\ RewriteInv
  BY Zenon DEF RedeliveryInv, TracedInv, RewriteInv, TypeInv
<1>q. queue \in Seq(Messages)
  BY <1>t, Zenon DEF TypeOK
<1> USE DEF procVars, consVars, fileVars, histVars
<1>1. CASE RegisterPlugins \/ PublishSender \/ InitInboundWal \/ StartConsumer
           \/ SetSessionHandler \/ SetRebuildMode \/ CloseGate \/ ReopenGate
  <2>1. UNCHANGED <<wal, kept, queue, todo, cpc, cmsg, delivered, logged>>
    BY <1>1, Zenon DEF RegisterPlugins, PublishSender, InitInboundWal, StartConsumer,
        SetSessionHandler, SetRebuildMode, CloseGate, ReopenGate
  <2> QED BY <1>t, <2>1, Zenon DEF Recorded, InFile, MessagesOf
<1>2. CASE LoadAll
  <2>1. /\ UNCHANGED <<wal, kept, queue, cpc, cmsg, delivered, logged>>
        /\ todo' \subseteq wal
    BY <1>2, Zenon DEF LoadAll
  <2>2. InFile' = InFile /\ MessagesOf(todo') \subseteq InFile
    BY <2>1, Zenon DEF InFile, MessagesOf
  <2> QED BY <1>t, <2>1, <2>2, Zenon DEF Recorded
<1>3. CASE TryReplayEntry
  <2> DEFINE e == First(todo)
  <2>1. /\ UNCHANGED <<wal, kept, cpc, cmsg, delivered, logged>>
        /\ todo # {} /\ todo' \subseteq todo
        /\ queue' = queue \/ queue' = Append(queue, e.msg)
    BY <1>3, Zenon DEF TryReplayEntry
  <2>2. e \in todo /\ e.msg \in Messages
    BY <1>t, <2>1, FirstLine, Zenon DEF TypeOK, Entry
  <2>3. e.msg \in MessagesOf(todo) /\ MessagesOf(todo') \subseteq MessagesOf(todo)
    BY <2>1, <2>2, Zenon DEF MessagesOf
  <2> HIDE DEF e
  <2>4. Range(queue') \subseteq Range(queue) \cup MessagesOf(todo)
    <3>1. CASE queue' = queue
      BY <3>1, Zenon
    <3>2. CASE queue' = Append(queue, e.msg)
      BY <1>q, <2>2, <2>3, <3>2, RangeAppend
    <3> QED BY <2>1, <3>1, <3>2, Zenon
  <2>5. InFile' = InFile
    BY <2>1, Zenon DEF InFile
  <2> QED BY <1>t, <2>1, <2>3, <2>4, <2>5, Zenon DEF Recorded
<1>4. ASSUME NEW m \in Messages, EnqueueDirect(m)
      PROVE  FALSE
  BY <1>4, Zenon DEF EnqueueDirect, CanArrive
<1>5. ASSUME NEW m \in Messages, AppendWal(m)
      PROVE  Recorded'
  <2>1. /\ UNCHANGED <<kept, queue, todo, cpc, cmsg, delivered>> /\ cpc # "writing"
        /\ wal \subseteq wal' /\ logged \subseteq logged'
    BY <1>5, Zenon DEF AppendWal, WalLocked
  <2>2. InFile \subseteq InFile'
    BY <2>1, Zenon DEF InFile, MessagesOf
  <2> QED BY <1>t, <2>1, <2>2, Zenon DEF Recorded
<1>6. ASSUME NEW m \in Messages, TrySend(m)
      PROVE  Recorded'
  <2>1. /\ UNCHANGED <<wal, kept, todo, cpc, cmsg, delivered, logged>> /\ call[m] = "sending"
        /\ queue' = queue \/ queue' = Append(queue, m)
    BY <1>6, Zenon DEF TrySend
  <2>2. m \notin delivered
    BY <1>t, <2>1, Zenon DEF OnePlace
  <2>3. Range(queue') \subseteq Range(queue) \cup {m}
    <3>1. CASE queue' = queue
      BY <3>1, Zenon
    <3>2. CASE queue' = Append(queue, m)
      BY <1>q, <3>2, RangeAppend, Zenon
    <3> QED BY <2>1, <3>1, <3>2, Zenon
  <2>4. InFile' = InFile
    BY <2>1, Zenon DEF InFile
  <2> QED BY <1>t, <2>1, <2>2, <2>3, <2>4, Zenon DEF Recorded
<1>7. CASE Recv
  <2>1. /\ UNCHANGED <<wal, kept, todo, delivered, logged>> /\ queue # <<>>
        /\ cmsg' = Head(queue) /\ queue' = Tail(queue) /\ cpc' = "process"
    BY <1>7, Zenon DEF Recv
  <2>2. Range(queue) = {cmsg'} \cup Range(queue')
    BY <1>q, <2>1, RangeHeadTail, Zenon
  <2>3. InFile' = InFile
    BY <2>1, Zenon DEF InFile
  <2> QED BY <1>t, <2>1, <2>2, <2>3, Zenon DEF Recorded
<1>8. CASE SkipNoPlugin \/ MarkDone \/ MarkFails
  <2>1. /\ UNCHANGED <<wal, kept, queue, todo, delivered, logged>> /\ cpc' = "recv"
    BY <1>8, Zenon DEF SkipNoPlugin, MarkDone, MarkFails
  <2>2. InFile' = InFile
    BY <2>1, Zenon DEF InFile
  <2> QED BY <1>t, <2>1, <2>2, Zenon DEF Recorded
<1>9. CASE Process
  <2>1. /\ UNCHANGED <<wal, kept, queue, todo, logged>> /\ cpc = "process"
        /\ cpc' \in {"mark", "recv"}
        /\ delivered' \subseteq delivered \cup {cmsg}
    BY <1>9, Zenon DEF Process, ChainEnds
  <2>2. InFile' = InFile
    BY <2>1, Zenon DEF InFile
  <2>3. cmsg \in logged /\ cmsg \notin Range(queue) /\ todo = {}
    BY <1>t, <2>1, Zenon DEF OnePlace, Traced
  <2>4. MessagesOf(todo') = {}
    BY <2>1, <2>3, Zenon DEF MessagesOf
  <2> QED BY <1>t, <2>1, <2>2, <2>3, <2>4, Zenon DEF Recorded
<1>10. CASE MarkRead
  <2>1. /\ UNCHANGED <<wal, queue, todo, cmsg, delivered, logged>>
        /\ kept = {} /\ cpc' = "kept"
    BY <1>t, <1>10, Zenon DEF MarkRead, Rewriting
  <2>2. InFile \subseteq InFile'
    BY <2>1, Zenon DEF InFile, MessagesOf
  <2> QED BY <1>t, <2>1, <2>2, Zenon DEF Recorded
<1>11. CASE Truncate
  <2>1. /\ UNCHANGED <<kept, queue, todo, cmsg, delivered, logged>>
        /\ wal' = {} /\ kept = {e \in wal : e.msg # cmsg}
        /\ cpc = "kept" /\ cpc' = "writing"
    BY <1>t, <1>11, Zenon DEF Truncate, Rewriting
  <2>2. InFile' = InFile \ {cmsg}
    BY <2>1, Zenon DEF InFile, MessagesOf
  <2>3. cmsg \notin Range(queue) /\ todo = {}
    BY <1>t, <2>1, Zenon DEF OnePlace
  <2>4. MessagesOf(todo') = {}
    BY <2>1, <2>3, Zenon DEF MessagesOf
  <2> QED BY <1>t, <2>1, <2>2, <2>3, <2>4, Zenon DEF Recorded
<1>12. CASE WriteEntry
  <2>1. UNCHANGED <<queue, todo, cpc, cmsg, delivered, logged>>
    BY <1>12, Zenon DEF WriteEntry
  <2>2. InFile' = InFile
    BY <1>t, <1>12, WriteEntryKeeps, Zenon DEF InFile
  <2> QED BY <1>t, <2>1, <2>2, Zenon DEF Recorded
<1>13. CASE Crash
  <2>1. /\ UNCHANGED <<delivered, logged>> /\ cpc' = "recv"
        /\ queue' = <<>> /\ todo' = {}
    BY <1>13, Zenon DEF Crash
  <2>2. Range(queue') = {} /\ MessagesOf(todo') = {}
    BY <2>1 DEF Range, MessagesOf
  <2> QED BY <1>t, <2>1, <2>2, Zenon DEF Recorded
<1>14. CASE UNCHANGED vars
  BY <1>t, <1>14, Zenon DEF vars, Recorded, InFile, MessagesOf
<1> QED
  BY <1>1, <1>2, <1>3, <1>4, <1>5, <1>6, <1>7, <1>8, <1>9, <1>10, <1>11, <1>12,
     <1>13, <1>14, Zenon
  DEF Next, Start, Enqueue, Consume

\* Each step keeps the account: a crash pays for the message that was being
\* removed, and a redelivery uses up the crash that had paid for it.
LEMMA OwedStep ==
  ASSUME ~IoErrors, ~EarlyArrivals, RedeliveryInv, [Next]_vars
  PROVE  Owed'
<1>t. /\ TypeOK /\ ConsumerHolds /\ Rewriting /\ Traced /\ OnePlace /\ Recorded
      /\ RewriteInv /\ Owed
  BY Zenon DEF RedeliveryInv, TracedInv, RewriteInv, TypeInv
<1> USE DEF procVars, consVars, fileVars, histVars
<1>1. CASE Start \/ SetRebuildMode \/ CloseGate \/ ReopenGate
           \/ (\E m \in Messages : TrySend(m)) \/ UNCHANGED vars
  <2>1. UNCHANGED <<wal, kept, cpc, cmsg, delivered, redelivered, crashes>>
    BY <1>1, Zenon DEF Start, RegisterPlugins, PublishSender, InitInboundWal, LoadAll,
        TryReplayEntry, StartConsumer, SetSessionHandler, SetRebuildMode,
        CloseGate, ReopenGate, TrySend, vars
  <2> QED BY <1>t, <2>1, StaleFrame, OwedShrinks, Zenon
<1>2. ASSUME NEW m \in Messages, EnqueueDirect(m)
      PROVE  FALSE
  BY <1>2, Zenon DEF EnqueueDirect, CanArrive
<1>3. ASSUME NEW m \in Messages, AppendWal(m)
      PROVE  Owed'
  <2> DEFINE new == [msg |-> m, pos |-> nextPos]
  <2>1. /\ UNCHANGED <<kept, cpc, cmsg, delivered, redelivered, crashes>>
        /\ call[m] = "new" /\ wal' \subseteq wal \cup {new}
    BY <1>3, Zenon DEF AppendWal, CanArrive
  <2>2. m \notin delivered
    BY <1>t, <2>1, Zenon DEF Traced, Recorded
  <2>3. new.msg = m
    OBVIOUS
  <2> HIDE DEF new
  <2>4. InFile' \subseteq InFile \cup {m}
    BY <2>1, <2>3, Zenon DEF InFile, MessagesOf
  <2>5. Stale' \subseteq Stale
    BY <2>1, <2>2, <2>4, Zenon DEF Stale, Removing
  <2> QED BY <1>t, <2>1, <2>5, OwedShrinks, Zenon
<1>4. CASE Recv \/ SkipNoPlugin
  <2>1. /\ UNCHANGED <<wal, kept, delivered, redelivered, crashes>>
        /\ ~Removing
    BY <1>4, Zenon DEF Recv, SkipNoPlugin, Removing
  <2>2. Stale' \subseteq Stale
    BY <2>1, Zenon DEF Stale, InFile
  <2> QED BY <1>t, <2>1, <2>2, OwedShrinks, Zenon
<1>5. CASE Process
  <2>1. /\ UNCHANGED <<wal, kept, crashes>> /\ cpc = "process" /\ cpc' = "mark"
        /\ cmsg' = cmsg
    BY <1>t, <1>5, Zenon DEF Process, OnePlace, Traced
  <2>2. InFile' = InFile /\ ~Removing /\ Removing'
    BY <2>1, Zenon DEF InFile, Removing
  <2>3. CASE UNCHANGED redelivered /\ delivered' \subseteq delivered \cup {cmsg}
    <3>1. Stale' \subseteq Stale
      BY <2>1, <2>2, <2>3, Zenon DEF Stale
    <3> QED BY <1>t, <2>1, <2>3, <3>1, OwedShrinks, Zenon
  <2>4. CASE /\ cmsg \in delivered /\ delivered' = delivered
             /\ redelivered' = redelivered + 1
    <3>1. cmsg \in Stale
      BY <1>t, <2>1, <2>2, <2>4, Zenon DEF Recorded, Stale
    <3>2. Stale' = Stale \ {cmsg}
      BY <2>1, <2>2, <2>4, Zenon DEF Stale
    <3>3. /\ IsFiniteSet(Stale') /\ Cardinality(Stale') = Cardinality(Stale) - 1
      BY <1>t, <3>1, <3>2, FS_RemoveElement, Zenon DEF Owed
    <3>4. Cardinality(Stale) \in Nat
      BY <1>t, FS_CardinalityType, Zenon DEF Owed
    <3> HIDE DEF Stale
    <3> QED BY <1>t, <2>1, <2>4, <3>3, <3>4, ConstantsAssumption DEF Owed, TypeOK
  <2> QED
    <3>1. ChainEnds(cmsg)
      BY <1>5, Zenon DEF Process
    <3>2. \/ UNCHANGED redelivered /\ delivered' \subseteq delivered \cup {cmsg}
          \/ /\ cmsg \in delivered /\ delivered' = delivered \cup {cmsg}
             /\ redelivered' = redelivered + 1
      BY <3>1, Zenon DEF ChainEnds
    <3> QED BY <2>3, <2>4, <3>2, Zenon
<1>6. CASE MarkRead
  <2>1. /\ UNCHANGED <<wal, cmsg, delivered, redelivered, crashes>>
        /\ kept' \subseteq wal /\ Removing /\ Removing'
    BY <1>6, Zenon DEF MarkRead, Removing
  <2>2. Stale' \subseteq Stale
    BY <2>1, Zenon DEF Stale, InFile, MessagesOf
  <2> QED BY <1>t, <2>1, <2>2, OwedShrinks, Zenon
<1>7. CASE Truncate
  <2>1. /\ UNCHANGED <<kept, cmsg, delivered, redelivered, crashes>>
        /\ wal' = {} /\ Removing /\ Removing'
    BY <1>7, Zenon DEF Truncate, Removing
  <2>2. Stale' \subseteq Stale
    BY <2>1, Zenon DEF Stale, InFile, MessagesOf
  <2> QED BY <1>t, <2>1, <2>2, OwedShrinks, Zenon
<1>8. CASE WriteEntry
  <2>1. UNCHANGED <<cpc, cmsg, delivered, redelivered, crashes>>
    BY <1>8, Zenon DEF WriteEntry
  <2>2. Stale' \subseteq Stale
    BY <1>t, <1>8, <2>1, WriteEntryKeeps, Zenon DEF Stale, InFile, Removing
  <2> QED BY <1>t, <2>1, <2>2, OwedShrinks, Zenon
<1>9. CASE MarkDone
  <2>1. /\ UNCHANGED <<wal, kept, delivered, redelivered, crashes>>
        /\ cpc = "writing"
    BY <1>9, Zenon DEF MarkDone
  <2>2. cmsg \notin InFile /\ InFile' = InFile
    BY <1>t, <2>1, Zenon DEF Recorded, InFile
  <2>3. Stale' \subseteq Stale
    BY <2>1, <2>2, Zenon DEF Stale
  <2> QED BY <1>t, <2>1, <2>3, OwedShrinks, Zenon
<1>10. CASE MarkFails
  BY <1>10, Zenon DEF MarkFails
<1>11. CASE Crash
  <2>1. /\ UNCHANGED <<wal, delivered, redelivered>> /\ kept' = {}
        /\ crashes' = crashes + 1
    BY <1>11, Zenon DEF Crash
  <2>2. Stale' \subseteq Stale \cup {cmsg}
    BY <2>1, Zenon DEF Stale, InFile, MessagesOf
  <2>3. /\ IsFiniteSet(Stale \cup {cmsg})
        /\ Cardinality(Stale \cup {cmsg}) \in {Cardinality(Stale), Cardinality(Stale) + 1}
    BY <1>t, FS_AddElement, Zenon DEF Owed
  <2>4. IsFiniteSet(Stale') /\ Cardinality(Stale') <= Cardinality(Stale \cup {cmsg})
    BY <2>2, <2>3, FS_Subset, Zenon
  <2>5. Cardinality(Stale) \in Nat /\ Cardinality(Stale') \in Nat
    BY <1>t, <2>4, FS_CardinalityType, Zenon DEF Owed
  <2> QED BY <1>t, <2>1, <2>3, <2>4, <2>5, ConstantsAssumption DEF Owed, TypeOK
<1> QED
  BY <1>1, <1>2, <1>3, <1>4, <1>5, <1>6, <1>7, <1>8, <1>9, <1>10, <1>11, Zenon
  DEF Next, Enqueue, Consume

\* If file operations succeed and nothing arrives before start_inbound_queue has
\* returned, each crash costs at most one delivery too many, even when it falls
\* inside the rewrite of the file.
THEOREM CrashesBoundRedeliveries ==
  ASSUME ~IoErrors, ~EarlyArrivals
  PROVE  Spec => []RedeliveriesBoundedByCrashes
<1>1. Init => RedeliveryInv
  BY RedeliveryInit, Zenon
<1>2. RedeliveryInv /\ [Next]_vars => RedeliveryInv'
  BY TracedStep, OnePlaceStep, RecordedStep, OwedStep, Zenon DEF RedeliveryInv
<1>3. RedeliveryInv => RedeliveriesBoundedByCrashes
  <2> SUFFICES ASSUME RedeliveryInv PROVE RedeliveriesBoundedByCrashes
    OBVIOUS
  <2>1. TypeOK /\ Owed
    BY Zenon DEF RedeliveryInv, TracedInv, RewriteInv, TypeInv
  <2>2. Cardinality(Stale) \in Nat
    BY <2>1, FS_CardinalityType, Zenon DEF Owed
  <2> QED BY <2>1, <2>2, ConstantsAssumption DEF Owed, TypeOK, RedeliveriesBoundedByCrashes
<1> QED
  BY <1>1, <1>2, <1>3, PTL DEF Spec
=============================================================================
