----------------------------- MODULE InboundQueue -----------------------------
(***************************************************************************)
(* The gateway's inbound queue with its write-ahead log (WAL), one gateway *)
(* object of one daemon process, across crashes and restarts.              *)
(*                                                                         *)
(* A platform plugin hands a message to enqueue_inbound, which appends it  *)
(* to the WAL and then try_sends it into a bounded channel.  A consumer    *)
(* task takes it out, runs the processing chain and removes it from the    *)
(* WAL by rewriting the file.  start_inbound_queue replays what the WAL    *)
(* holds.  The session handler, without which the chain drops an ordinary  *)
(* message, is installed later, while the consumer is already running.     *)
(*                                                                         *)
(* The file is a set of entries [msg, pos]; pos is the position at which   *)
(* the entry was appended, so the order of lines is the order of pos.      *)
(***************************************************************************)
EXTENDS Integers, Sequences, Functions

CONSTANTS
  Messages,       \* inbound messages, one trace_id each
  NoMsg,          \* the consumer holds no request
  Retired,        \* messages of a platform that a restart no longer enables
  Capacity,       \* inbound_queue_capacity
  MaxCrashes,     \* bound on process crashes
  CrashInRewrite, \* may the process die while the WAL file is being rewritten?
  IoErrors,       \* may WAL file operations fail?
  EarlyArrivals,  \* may plugins deliver while start_inbound_queue runs?
  Shutdowns       \* may the daemon begin to shut down?

ASSUME ConstantsAssumption ==
  /\ NoMsg \notin Messages
  /\ Retired \subseteq Messages
  /\ Capacity \in Nat \ {0}
  /\ MaxCrashes \in Nat
  /\ CrashInRewrite \in BOOLEAN /\ IoErrors \in BOOLEAN
  /\ EarlyArrivals \in BOOLEAN /\ Shutdowns \in BOOLEAN

VARIABLES
  wal,         \* entries of inbound.jsonl (survives a crash)
  nextPos,     \* the position the next append writes to
  life,        \* how far start_inbound_queue has come
  walOpen,     \* the gateway's inbound_wal slot is filled
  wired,       \* set_session_handler has been called
  gate,        \* the shutdown gate: open, closed, open again in state Stopped
  queue,       \* the bounded mpsc channel
  todo,        \* entries load_all returned that are still to be replayed
  rebuildMode, \* RebuildStash.rebuild_mode
  stash,       \* RebuildStash.stash
  call,        \* the enqueue_inbound call of each message
  cpc,         \* where the consumer task is
  cmsg,        \* the request it holds
  kept,        \* entries mark_done_and_delete still has to write back
  crashes,     \* number of crashes so far
  logged,      \* history: messages whose append succeeded
  finished,    \* history: messages the chain has run to its end for
  turnedAway,  \* history: messages the chain ended for at the closed gate
  delivered,   \* history: messages that have reached the session handler
  redelivered  \* history: how often one that had reached it reached it again

procVars ==
  <<life, walOpen, wired, gate, queue, todo, rebuildMode, stash, call>>
consVars == <<cpc, cmsg, kept>>
fileVars == <<wal, nextPos>>
histVars == <<logged, finished, turnedAway, delivered, redelivered>>
vars == <<procVars, consVars, fileVars, crashes, histVars>>

Entry == [msg : Messages, pos : Nat]
Life == {"down", "plugins", "txset", "walset", "replay", "up"}
Gate == {"open", "closed", "reopened"}
Call == {"new", "sending", "accepted", "stashed", "rejected", "cut"}
ConsumerPc == {"recv", "process", "mark", "kept", "writing"}

Init ==
  /\ wal = {} /\ nextPos = 0
  /\ life = "down" /\ walOpen = FALSE /\ wired = FALSE
  /\ gate = "open"
  /\ queue = <<>> /\ todo = {}
  /\ rebuildMode = FALSE /\ stash = <<>>
  /\ call = [m \in Messages |-> "new"]
  /\ cpc = "recv" /\ cmsg = NoMsg /\ kept = {}
  /\ crashes = 0
  /\ logged = {} /\ finished = {} /\ turnedAway = {}
  /\ delivered = {} /\ redelivered = 0

-----------------------------------------------------------------------------
(* Helpers.                                                                *)

\* The entry of S on the earliest line of the file.
First(S) == CHOOSE e \in S : \A f \in S : e.pos <= f.pos

\* get_plugin finds no plugin: the platform was dropped from the
\* configuration before the present process started.
NoPlugin(m) == m \in Retired /\ crashes > 0

\* The WAL's Mutex is held by mark_done_and_delete, or the gateway's
\* inbound_wal slot is held locked by replay_wal_entries.
WalLocked == cpc \in {"kept", "writing"} \/ life = "replay"

\* The processing chain ends for m: it is turned away at the shutdown gate, or
\* dispatch_to_handler hands it to the session handler, or returns early when
\* none is installed.
ChainEnds(m) ==
  /\ finished' = finished \cup {m}
  /\ IF gate = "closed"
     THEN turnedAway' = turnedAway \cup {m} /\ UNCHANGED <<delivered, redelivered>>
     ELSE /\ UNCHANGED turnedAway
          /\ delivered' = IF wired THEN delivered \cup {m} ELSE delivered
          /\ redelivered' = IF wired /\ m \in delivered THEN redelivered + 1
                            ELSE redelivered

-----------------------------------------------------------------------------
(* Starting the process and its queue.                                     *)

\* The platform plugins are registered and may deliver; inbound_tx is None.
RegisterPlugins ==
  /\ life = "down"
  /\ life' = "plugins"
  /\ UNCHANGED <<walOpen, wired, gate, queue, todo, rebuildMode, stash, call,
                 consVars, fileVars, crashes, histVars>>

\* start_inbound_queue: create the channel and publish its sender.
PublishSender ==
  /\ life = "plugins"
  /\ life' = "txset"
  /\ UNCHANGED <<walOpen, wired, gate, queue, todo, rebuildMode, stash, call,
                 consVars, fileVars, crashes, histVars>>

\* init_inbound_wal: open the file; on an error go on without a WAL.
InitInboundWal ==
  /\ life = "txset"
  /\ life' = "walset"
  /\ \/ walOpen' = TRUE
     \/ IoErrors /\ walOpen' = FALSE
  /\ UNCHANGED <<wired, gate, queue, todo, rebuildMode, stash, call, consVars,
                 fileVars, crashes, histVars>>

\* replay_wal_entries: lock the slot and load every entry.  With two entries
\* of one trace_id only the first is replayed.  A load error skips the replay.
LoadAll ==
  /\ life = "walset"
  /\ life' = "replay"
  /\ \/ /\ walOpen
        /\ todo' = {e \in wal :
                      \A f \in wal : f.msg = e.msg => e.pos <= f.pos}
     \/ /\ ~walOpen \/ IoErrors
        /\ todo' = {}
  /\ UNCHANGED <<walOpen, wired, gate, queue, rebuildMode, stash, call,
                 consVars, fileVars, crashes, histVars>>

\* (mutant) An entry that has been sent is retried once.
TryReplayEntryTwice ==
  /\ life = "replay" /\ todo # {}
  /\ todo' = todo \ {First(todo)}
  /\ queue' = IF Len(queue) + 1 < Capacity
              THEN queue \o <<First(todo).msg, First(todo).msg>> ELSE queue
  /\ UNCHANGED <<life, walOpen, wired, gate, rebuildMode, stash, call, consVars,
                 fileVars, crashes, histVars>>

\* try_replay_entry: a full channel drops the entry from this replay; it
\* stays in the file.
TryReplayEntry ==
  /\ life = "replay" /\ todo # {}
  /\ todo' = todo \ {First(todo)}
  /\ queue' = IF Len(queue) < Capacity
              THEN Append(queue, First(todo).msg) ELSE queue
  /\ UNCHANGED <<life, walOpen, wired, gate, rebuildMode, stash, call, consVars,
                 fileVars, crashes, histVars>>

\* The replay is over: unlock the slot and spawn the consumer.
StartConsumer ==
  /\ life = "replay" /\ todo = {}
  /\ life' = "up"
  /\ UNCHANGED <<walOpen, wired, gate, queue, todo, rebuildMode, stash, call,
                 consVars, fileVars, crashes, histVars>>

\* set_session_handler, which start-up and rebuild both call only after
\* start_inbound_queue has returned.
SetSessionHandler ==
  /\ life = "up" /\ ~wired
  /\ wired' = TRUE
  /\ UNCHANGED <<life, walOpen, gate, queue, todo, rebuildMode, stash, call,
                 consVars, fileVars, crashes, histVars>>

\* The daemon puts the gateway into rebuild mode.
SetRebuildMode ==
  /\ life = "up" /\ wired /\ ~rebuildMode
  /\ rebuildMode' = TRUE
  /\ UNCHANGED <<life, walOpen, wired, gate, queue, todo, stash, call, consVars,
                 fileVars, crashes, histVars>>

\* The daemon reads a shutdown signal: is_shutting_down becomes true.
CloseGate ==
  /\ Shutdowns /\ life = "up" /\ wired /\ gate = "open"
  /\ gate' = "closed"
  /\ UNCHANGED <<life, walOpen, wired, queue, todo, rebuildMode, stash, call,
                 consVars, fileVars, crashes, histVars>>

\* The drain has ended: the state is Stopped, for which is_shutting_down is
\* false again.
ReopenGate ==
  /\ gate = "closed"
  /\ gate' = "reopened"
  /\ UNCHANGED <<life, walOpen, wired, queue, todo, rebuildMode, stash, call,
                 consVars, fileVars, crashes, histVars>>

-----------------------------------------------------------------------------
(* enqueue_inbound, called by a plugin's task.                             *)

\* A plugin can deliver m now.
CanArrive(m) ==
  /\ call[m] = "new"
  /\ ~NoPlugin(m)
  /\ life = "up" \/ (EarlyArrivals /\ life # "down")

\* inbound_tx is None: process_inbound_direct, and report Ok.
EnqueueDirect(m) ==
  /\ CanArrive(m) /\ life = "plugins"
  /\ call' = [call EXCEPT ![m] = "accepted"]
  /\ ChainEnds(m)
  /\ UNCHANGED <<life, walOpen, wired, gate, queue, todo, rebuildMode, stash,
                 consVars, fileVars, crashes, logged>>

\* (mutant) In rebuild mode the stash is taken for durable enough.
AppendWalUnlessRebuilding(m) ==
  /\ CanArrive(m) /\ life # "plugins" /\ ~WalLocked
  /\ call' = [call EXCEPT ![m] = "sending"]
  /\ \/ /\ walOpen /\ ~rebuildMode
        /\ wal' = wal \cup {[msg |-> m, pos |-> nextPos]}
        /\ nextPos' = nextPos + 1
        /\ logged' = logged \cup {m}
     \/ /\ ~walOpen \/ IoErrors \/ rebuildMode
        /\ UNCHANGED <<wal, nextPos, logged>>
  /\ UNCHANGED <<life, walOpen, wired, gate, queue, todo, rebuildMode, stash,
                 consVars, crashes, finished, turnedAway, delivered,
                 redelivered>>

\* append_wal_if_configured: append and fsync under the lock; a failed append
\* is logged and the call goes on.
AppendWal(m) ==
  /\ CanArrive(m) /\ life # "plugins" /\ ~WalLocked
  /\ call' = [call EXCEPT ![m] = "sending"]
  /\ \/ /\ walOpen
        /\ wal' = wal \cup {[msg |-> m, pos |-> nextPos]}
        /\ nextPos' = nextPos + 1
        /\ logged' = logged \cup {m}
     \/ /\ ~walOpen \/ IoErrors
        /\ UNCHANGED <<wal, nextPos, logged>>
  /\ UNCHANGED <<life, walOpen, wired, gate, queue, todo, rebuildMode, stash,
                 consVars, crashes, finished, turnedAway, delivered,
                 redelivered>>

\* try_send: queued, or stashed in rebuild mode, or rejected with a busy reply.
TrySend(m) ==
  /\ call[m] = "sending"
  /\ \/ /\ Len(queue) < Capacity
        /\ queue' = Append(queue, m)
        /\ call' = [call EXCEPT ![m] = "accepted"]
        /\ UNCHANGED stash
     \/ /\ Len(queue) >= Capacity /\ rebuildMode
        /\ stash' = Append(stash, m)
        /\ call' = [call EXCEPT ![m] = "stashed"]
        /\ UNCHANGED queue
     \/ /\ Len(queue) >= Capacity /\ ~rebuildMode
        /\ call' = [call EXCEPT ![m] = "rejected"]
        /\ UNCHANGED <<queue, stash>>
  /\ UNCHANGED <<life, walOpen, wired, gate, todo, rebuildMode, consVars,
                 fileVars, crashes, histVars>>

-----------------------------------------------------------------------------
(* The consumer task.                                                      *)

Recv ==
  /\ life = "up" /\ cpc = "recv" /\ queue # <<>>
  /\ cmsg' = Head(queue)
  /\ queue' = Tail(queue)
  /\ cpc' = "process"
  /\ UNCHANGED <<life, walOpen, wired, gate, todo, rebuildMode, stash, call,
                 kept, fileVars, crashes, histVars>>

\* No plugin for the platform: go on with the next message; the WAL entry
\* is left where it is.
SkipNoPlugin ==
  /\ cpc = "process" /\ NoPlugin(cmsg)
  /\ cpc' = "recv" /\ cmsg' = NoMsg
  /\ UNCHANGED <<procVars, kept, fileVars, crashes, histVars>>

\* process_single_request, then on to the WAL if there is one.
Process ==
  /\ cpc = "process" /\ ~NoPlugin(cmsg)
  /\ ChainEnds(cmsg)
  /\ IF walOpen THEN cpc' = "mark" /\ UNCHANGED cmsg
                ELSE cpc' = "recv" /\ cmsg' = NoMsg
  /\ UNCHANGED <<procVars, kept, fileVars, crashes, logged>>

\* mark_done_and_delete: lock, read the file, leave out the entries of cmsg.
MarkRead ==
  /\ cpc = "mark"
  /\ kept' = {e \in wal : e.msg # cmsg}
  /\ cpc' = "kept"
  /\ UNCHANGED <<procVars, cmsg, fileVars, crashes, histVars>>

\* write_entries_unlocked: opening the file truncates it ...
Truncate ==
  /\ cpc = "kept"
  /\ wal' = {}
  /\ cpc' = "writing"
  /\ UNCHANGED <<procVars, cmsg, kept, nextPos, crashes, histVars>>

\* ... then one write per entry, from the start of the file.  Lines that
\* another handle has appended since are overwritten, the first one at least.
WriteEntry ==
  /\ cpc = "writing" /\ kept # {}
  /\ LET e == First(kept)
         foreign == {f \in wal : f.pos > e.pos}
     IN \E lost \in SUBSET foreign :
          /\ foreign # {} => First(foreign) \in lost
          /\ wal' = (wal \ lost) \cup {e}
          /\ kept' = kept \ {e}
  /\ UNCHANGED <<procVars, cpc, cmsg, nextPos, crashes, histVars>>

\* sync_all, unlock, and back to recv.
MarkDone ==
  /\ cpc = "writing" /\ kept = {}
  /\ cpc' = "recv" /\ cmsg' = NoMsg
  /\ UNCHANGED <<procVars, kept, fileVars, crashes, histVars>>

\* (mutant) The error ends the consumer's loop.
MarkFailsStops ==
  /\ IoErrors
  /\ cpc \in {"mark", "writing"}
  /\ cpc' = "exited" /\ cmsg' = NoMsg /\ kept' = {}
  /\ UNCHANGED <<procVars, fileVars, crashes, histVars>>

\* An I/O error in mark_done_and_delete is logged and forgotten; what it had
\* not yet written back is gone from the file.
MarkFails ==
  /\ IoErrors
  /\ cpc \in {"mark", "writing"}
  /\ cpc' = "recv" /\ cmsg' = NoMsg /\ kept' = {}
  /\ UNCHANGED <<procVars, fileVars, crashes, histVars>>

-----------------------------------------------------------------------------
\* The process dies: only the file is left.
Crash ==
  /\ crashes < MaxCrashes
  /\ life # "down"
  /\ cpc = "writing" => CrashInRewrite
  /\ crashes' = crashes + 1
  /\ life' = "down" /\ walOpen' = FALSE /\ wired' = FALSE
  /\ gate' = "open"
  /\ queue' = <<>> /\ todo' = {}
  /\ rebuildMode' = FALSE /\ stash' = <<>>
  /\ call' = [m \in Messages |-> IF call[m] = "sending" THEN "cut" ELSE call[m]]
  /\ cpc' = "recv" /\ cmsg' = NoMsg /\ kept' = {}
  /\ UNCHANGED <<fileVars, histVars>>

Start ==
  \/ RegisterPlugins \/ PublishSender \/ InitInboundWal \/ LoadAll
  \/ TryReplayEntry \/ StartConsumer \/ SetSessionHandler

Enqueue(m) == EnqueueDirect(m) \/ AppendWal(m) \/ TrySend(m)

Consume ==
  \/ Recv \/ SkipNoPlugin \/ Process \/ MarkRead \/ Truncate \/ WriteEntry
  \/ MarkDone \/ MarkFails

Next ==
  \/ Start
  \/ SetRebuildMode \/ CloseGate \/ ReopenGate
  \/ \E m \in Messages : Enqueue(m)
  \/ Consume
  \/ Crash

Spec == Init /\ [][Next]_vars

\* The runtime keeps running every task that can make progress: start-up, the
\* consumer, and an enqueue call that has begun.  Arrivals, I/O errors and
\* crashes are never forced.
Fairness ==
  /\ WF_vars(Start)
  /\ WF_vars(Consume)
  /\ \A m \in Messages : WF_vars(TrySend(m))

FairSpec == Spec /\ Fairness

-----------------------------------------------------------------------------
(* Properties.                                                             *)

\* The type invariant; the channel never holds more than its capacity.
TypeOK ==
  /\ wal \in SUBSET Entry /\ nextPos \in Nat
  /\ life \in Life /\ walOpen \in BOOLEAN /\ wired \in BOOLEAN
  /\ gate \in Gate
  /\ queue \in Seq(Messages) /\ Len(queue) <= Capacity
  /\ todo \in SUBSET Entry
  /\ rebuildMode \in BOOLEAN /\ stash \in Seq(Messages)
  /\ call \in [Messages -> Call]
  /\ cpc \in ConsumerPc /\ cmsg \in Messages \cup {NoMsg}
  /\ kept \in SUBSET Entry
  /\ crashes \in 0..MaxCrashes
  /\ logged \in SUBSET Messages /\ finished \in SUBSET Messages
  /\ turnedAway \in SUBSET Messages
  /\ delivered \in SUBSET Messages /\ redelivered \in Nat

MessagesOf(entries) == {e.msg : e \in entries}

\* A message the WAL has taken stays recoverable until the processing chain has
\* run to its end for it: at every moment, in every process life, its entry is
\* in the file or among the lines mark_done_and_delete is writing back.  (WAL
\* append before try_send, delete after process_single_request.)
Durable ==
  \A m \in logged \ finished : m \in MessagesOf(wal \cup kept)

\* A crash makes at most one message be delivered once more: the one whose
\* chain had ended and whose entry mark_done_and_delete had not yet removed.
RedeliveriesBoundedByCrashes == redelivered <= crashes

\* While the process lives, no fault of the WAL loses a queued message: until
\* the chain has ended for it, it is in the channel, in the stash, or held by
\* the consumer.
AcceptedIsInMemory ==
  crashes = 0 =>
    \A m \in Messages \ finished :
      /\ call[m] = "accepted" => cmsg = m \/ m \in Range(queue)
      /\ call[m] = "stashed" => m \in Range(stash)

\* As long as the process lives, a message answered with the busy reply is not
\* handed to the session handler: the user was told to send it again.
RejectedIsFinal ==
  crashes = 0 => \A m \in Messages : call[m] = "rejected" => m \notin delivered

\* The consumer has removed every message it is done with: in a process that
\* has never crashed, a finished message that is still in the file is the one
\* the consumer is deleting right now.
DoneIsDeleted ==
  crashes = 0 =>
    \A m \in finished \cap MessagesOf(wal \cup kept) :
      cmsg = m /\ cpc \in {"mark", "kept"}

\* The queue implements a reliable inbox.  What is pending is read off the file
\* (and the lines being written back to it), what is done off the ends of the
\* chain: a message becomes pending by its append and by nothing else, stays
\* pending through crashes, replays and rewrites, and is never processed unless
\* it is pending or done.
Pending == MessagesOf(wal \cup kept) \ finished

Inbox == INSTANCE ReliableInbox WITH pending <- Pending, done <- finished

ImplementsInbox == Inbox!Spec

\* Every message enqueue_inbound has queued is processed in the end: the
\* consumer runs the chain for it, in this process life or after a restart.
AcceptedIsFinished ==
  \A m \in Messages : call[m] = "accepted" ~> m \in finished

\* shutdown.md: a message accepted before the shutdown is not silently dropped.
\* One that the shutdown gate turned away stays in the WAL, to be replayed after
\* the restart, unless it had been delivered before.
TurnedAwayIsKept ==
  \A m \in turnedAway \ delivered : m \in MessagesOf(wal \cup kept)
=============================================================================
