---------------------------- MODULE SessionStore ----------------------------
(***************************************************************************)
(* The sessions of one routing key (one user talking to one agent): their  *)
(* records in sessions.sqlite, their transcripts under sessions/ and       *)
(* archived_sessions/, the cache of the CheckpointManager, and the four    *)
(* parties that work on them: SessionManager::resolve, which finds or      *)
(* creates the session of a message; the handlers that save checkpoints;   *)
(* the ArchiveSweeper; and the consistency check.  The daemon may crash    *)
(* between any two steps, and then recovers.                               *)
(*                                                                         *)
(* A transcript is a file that is there or not.  Time is left out: any     *)
(* session at rest may be swept and any archive may have expired.          *)
(***************************************************************************)
EXTENDS Integers

CONSTANTS
  MaxSessions,  \* bound: session ids that are generated
  MaxMessages,  \* bound: messages
  MaxCrashes,   \* bound: crashes
  SlowArchive   \* may an archive under way outlast the 30 s that resolve
                \* waits for it, or the 10 s of the startup recovery?

ASSUME StoreAssumption ==
  /\ MaxSessions \in Nat \ {0} /\ MaxMessages \in Nat /\ MaxCrashes \in Nat
  /\ SlowArchive \in BOOLEAN

Ids == 1 .. MaxSessions
NoId == 0

VARIABLES
  row,       \* status column of each session's record, "none": no record
  live,      \* the sessions with a transcript under sessions/
  arch,      \* the sessions with a transcript under archived_sessions/
  dated,     \* the sessions whose record has a value in archived_at
  cache,     \* status of the checkpoint that the CheckpointManager caches
  registry,  \* key_registry: the session of the routing key
  mem,       \* SessionManager::sessions
  conv,      \* SessionManager::conversation_sessions
  used,      \* session ids generated so far
  res,       \* resolve, serialised by the agent's lock
  saver,     \* a handler that loads a checkpoint, changes and saves it
  sweep,     \* do_archive and do_purge, for the sweeper or for the recovery
  check,     \* the periodic consistency check
  boot,      \* how far the daemon has started
  messages, crashes,
  torn,      \* history: the sessions that were being worked on at a crash, or
             \* whose record the periodic check has deleted
  reverted   \* history: the sessions whose record a save has put back to
             \* migrating or archived, which it no longer was

files == <<live, arch>>
record == <<row, dated>>
memory == <<cache, registry, mem, conv>>
counts == <<used, messages, crashes, torn>>
bounds == <<counts, reverted>>
vars == <<record, files, memory, bounds, res, saver, sweep, check, boot>>

Status == {"active", "migrating", "archived"}

Rest == [pc |-> "idle", id |-> NoId, st |-> "none"]
Returned == [pc |-> "idle", id |-> NoId, st |-> "none", vacant |-> FALSE]

Init ==
  /\ row = [s \in Ids |-> "none"] /\ live = {} /\ arch = {} /\ dated = {}
  /\ cache = [s \in Ids |-> "none"] /\ registry = NoId /\ mem = {} /\ conv = {}
  /\ used = 0 /\ messages = 0 /\ crashes = 0
  /\ torn = {} /\ reverted = {}
  /\ res = Returned /\ saver = Rest /\ sweep = Rest /\ check = Rest
  /\ boot = "up"

-----------------------------------------------------------------------------
(* The store. *)

\* Where the transcript of a record of that status is looked for; a record
\* without one is an error to load_checkpoint.
HasTranscript(s, st) ==
  CASE st = "active" -> s \in live
    [] st = "archived" -> s \in arch
    [] st = "migrating" -> s \in live \cup arch

Loads(s) == row[s] # "none" /\ HasTranscript(s, row[s])

\* CheckpointManager::load: the cached checkpoint, or else the stored one
load(s) == IF cache[s] # "none" THEN cache[s]
           ELSE IF Loads(s) THEN row[s] ELSE "none"

\* save_direct, up to the record; the transcript is written afterwards.  The
\* status is that of the checkpoint that was loaded, whatever the record's is.
SaveRecord(s, st) ==
  /\ cache' = [cache EXCEPT ![s] = st]
  /\ row' = [row EXCEPT ![s] = st]
  /\ dated' = dated \ {s}
  /\ reverted' = IF st \notin {"active", row[s]} THEN reverted \cup {s} ELSE reverted

DeleteRecord(s) == row' = [row EXCEPT ![s] = "none"] /\ dated' = dated \ {s}

\* do_restore and do_purge hold the database's write lock while they move or
\* delete a transcript.
Unlocked == res.pc # "activate" /\ sweep.pc # "delete"

-----------------------------------------------------------------------------
(* resolve.  "path1" to "path3" are its three paths, "wait" the wait for an  *)
(* archive, "restore" to "rebuild" the restore of an archived or migrating   *)
(* session, "fields" the update_checkpoint_fields before it returns.  "st"   *)
(* is where a wait or restore was called from, or the status to be saved.    *)
(* "vacant" is history: was there a moment since the message arrived at      *)
(* which no session of the routing key could be loaded?                      *)

At(pc) == res.pc = pc /\ boot = "up"
Goes(pc, s, st) ==
  res' = [pc |-> pc, id |-> s, st |-> st,
          vacant |-> res.vacant \/ \A t \in Ids : ~Loads(t)]
others == <<saver, sweep, check, boot>>

\* A message arrives and the registry is read.
Resolve ==
  /\ At("idle") /\ messages < MaxMessages /\ used < MaxSessions
  /\ messages' = messages + 1
  /\ CASE registry \in mem -> Goes("path1", registry, "none")
       [] registry \in Ids \ mem -> Goes("restore", registry, "path2")
       [] registry = NoId -> Goes("path3", NoId, "none")
  /\ UNCHANGED <<record, files, memory, used, crashes, torn, reverted,
                 others>>

\* Mutant of Path1: the conversation of an archived session stays in memory.
Path1KeepsConversation ==
  LET s == res.id IN
  /\ At("path1")
  /\ cache' = [cache EXCEPT ![s] = load(s)]
  /\ CASE load(s) \in {"active", "none"} ->
              Goes("fields", s, "none") /\ UNCHANGED <<registry, mem, conv>>
       [] load(s) = "migrating" ->
              Goes("wait", s, "path2") /\ UNCHANGED <<registry, mem, conv>>
       [] load(s) = "archived" ->
              /\ Goes("restore", s, "path2")
              /\ registry' = NoId /\ mem' = mem \ {s} /\ UNCHANGED conv
  /\ UNCHANGED <<record, files, bounds, others>>

\* Path 1: what the checkpoint of a session in memory says.  Only a cached
\* one is asked, and the sweeper does not change the cache.
Path1 ==
  LET s == res.id IN
  /\ At("path1")
  /\ cache' = [cache EXCEPT ![s] = load(s)]
  /\ CASE load(s) \in {"active", "none"} ->
              Goes("fields", s, "none") /\ UNCHANGED <<registry, mem, conv>>
       [] load(s) = "migrating" ->
              Goes("wait", s, "path2") /\ UNCHANGED <<registry, mem, conv>>
       [] load(s) = "archived" ->
              /\ Goes("restore", s, "path2")
              /\ registry' = NoId /\ mem' = mem \ {s} /\ conv' = conv \ {s}
  /\ UNCHANGED <<record, files, bounds, others>>

\* wait_for_archive_completion, and what is done when it gives up
Archived ==
  /\ At("wait")
  /\ Loads(res.id) /\ row[res.id] = "archived"
  /\ IF res.st = "path2" THEN Goes("restore", res.id, "path2")
                          ELSE Goes("archived", NoId, "none")
  /\ UNCHANGED <<record, files, memory, bounds, others>>

\* Mutant of GivesUp: the wait for an archive of a session in memory does not
\* run out.
GivesUpInPath3 ==
  LET s == res.id IN
  /\ At("wait") /\ res.st = "path3"
  /\ SlowArchive \/ sweep.id # s
  /\ ~(Loads(s) /\ row[s] = "archived")
  /\ Goes("restore", s, "timeout3")
  /\ UNCHANGED <<record, files, memory, bounds, others>>

GivesUp ==
  LET s == res.id IN
  /\ At("wait")
  /\ SlowArchive \/ sweep.id # s
  /\ ~(Loads(s) /\ row[s] = "archived")
  /\ IF res.st = "path2"
     THEN registry' = NoId /\ mem' = mem \ {s} /\ conv' = conv \ {s}
     ELSE UNCHANGED <<registry, mem, conv>>
  /\ Goes("restore", s, IF res.st = "path2" THEN "timeout2" ELSE "timeout3")
  /\ UNCHANGED <<record, files, cache, bounds, others>>

\* Where resolve goes on when a session cannot be restored
NotRestored(s) ==
  CASE res.st = "path2" -> Goes("path3", NoId, "none")
    [] res.st = "archived" -> Goes("create", NoId, "none")
    [] res.st = "timeout2" -> Goes("restore", s, "path2")
    [] res.st = "timeout3" -> Goes("archived", NoId, "none")

\* try_restore_archived_session and try_restore_migrating_checkpoint: the
\* status is looked at and the transcript moved back ...
Restore ==
  LET s == res.id
      restorable == IF res.st \in {"path2", "archived"}
                    THEN Loads(s) /\ row[s] = "archived"
                    ELSE row[s] \in {"archived", "migrating"} IN
  /\ At("restore") /\ Unlocked
  /\ IF restorable
     THEN /\ res' = [res EXCEPT !.pc = "activate"]
          /\ IF s \in arch /\ s \notin live
             THEN live' = live \cup {s} /\ arch' = arch \ {s}
             ELSE UNCHANGED files
     ELSE NotRestored(s) /\ UNCHANGED files
  /\ UNCHANGED <<record, memory, bounds, others>>

\* ... and the record made active; it is an error if it then does not load.
Activate ==
  LET s == res.id IN
  /\ At("activate")
  /\ row' = [row EXCEPT ![s] = "active"] /\ dated' = dated \ {s}
  /\ IF s \in live THEN res' = [res EXCEPT !.pc = "rebuild"] ELSE NotRestored(s)
  /\ UNCHANGED <<files, memory, bounds, others>>

\* The session is built from its checkpoint, registered, and saved: twice in
\* a row with the same status, once here.  The archived session that path 3
\* has found is loaded from the cache first, the others from the store.
Rebuild ==
  LET s == res.id
      st == IF res.st = "archived" THEN load(s)
            ELSE IF Loads(s) THEN row[s] ELSE "none" IN
  /\ At("rebuild")
  /\ registry' = s
  /\ IF st = "none"
     THEN Goes("fields", s, "none") /\ UNCHANGED <<cache, mem, conv>>
     ELSE /\ cache' = [cache EXCEPT ![s] = st]
          /\ mem' = mem \cup {s} /\ conv' = conv \cup {s}
          /\ Goes("record", s, st)
  /\ UNCHANGED <<record, files, bounds, others>>

\* Mutant of QueryActive: the store is not asked for a migrating session.
QueryActiveThenArchived ==
  /\ At("path3")
  /\ \/ /\ \A s \in Ids : row[s] # "active"
        /\ Goes("archived", NoId, "none") /\ UNCHANGED <<registry, mem>>
     \/ \E s \in Ids :
          /\ row[s] = "active"
          /\ registry' = s /\ mem' = mem \cup {s}
          /\ Goes("fields", s, "none")
  /\ UNCHANGED <<record, files, cache, conv, bounds, others>>

\* Path 3: the store is asked for a session of the routing key that is active,
\* migrating, archived, in this order.
QueryActive ==
  /\ At("path3")
  /\ \/ /\ \A s \in Ids : row[s] # "active"
        /\ Goes("migrating", NoId, "none") /\ UNCHANGED <<registry, mem>>
     \/ \E s \in Ids :
          /\ row[s] = "active"
          /\ registry' = s /\ mem' = mem \cup {s}
          /\ Goes("fields", s, "none")
  /\ UNCHANGED <<record, files, cache, conv, bounds, others>>

QueryMigrating ==
  /\ At("migrating")
  /\ \/ (\A s \in Ids : row[s] # "migrating") /\ Goes("archived", NoId, "none")
     \/ \E s \in Ids : row[s] = "migrating" /\ Goes("wait", s, "path3")
  /\ UNCHANGED <<record, files, memory, bounds, others>>

QueryArchived ==
  /\ At("archived")
  /\ \/ (\A s \in Ids : row[s] # "archived") /\ Goes("create", NoId, "none")
     \/ \E s \in Ids : row[s] = "archived" /\ Goes("restore", s, "archived")
  /\ UNCHANGED <<record, files, memory, bounds, others>>

Create ==
  /\ At("create")
  /\ used' = used + 1
  /\ registry' = used' /\ mem' = mem \cup {used'} /\ conv' = conv \cup {used'}
  /\ Goes("record", used', "active")
  /\ UNCHANGED <<record, files, cache, messages, crashes, torn, reverted,
                 others>>

\* update_checkpoint_fields: load, change, save, if there is one to load
Fields ==
  /\ At("fields")
  /\ cache' = [cache EXCEPT ![res.id] = load(res.id)]
  /\ IF load(res.id) = "none" THEN res' = Returned
                              ELSE Goes("record", res.id, load(res.id))
  /\ UNCHANGED <<record, files, registry, mem, conv, bounds, others>>

\* save_direct, first the record and then the transcript; resolve returns
Record ==
  /\ At("record") /\ Unlocked
  /\ SaveRecord(res.id, res.st)
  /\ res' = [res EXCEPT !.pc = "file"]
  /\ UNCHANGED <<files, registry, mem, conv, counts, others>>

File ==
  /\ At("file")
  /\ live' = live \cup {res.id}
  /\ res' = Returned
  /\ UNCHANGED <<record, arch, memory, bounds, others>>

-----------------------------------------------------------------------------
(* The other handlers that load the checkpoint of a session in memory and    *)
(* save it: user activity, plan state, outbound messages, compaction.        *)

SaverLoads ==
  /\ saver.pc = "idle" /\ boot = "up"
  /\ \E s \in mem :
       /\ load(s) # "none"
       /\ cache' = [cache EXCEPT ![s] = load(s)]
       /\ saver' = [pc |-> "record", id |-> s, st |-> load(s)]
  /\ UNCHANGED <<record, files, registry, mem, conv, bounds, res, sweep, check, boot>>

SaverRecord ==
  /\ saver.pc = "record" /\ Unlocked
  /\ SaveRecord(saver.id, saver.st)
  /\ saver' = [saver EXCEPT !.pc = "file"]
  /\ UNCHANGED <<files, registry, mem, conv, counts, res, sweep, check, boot>>

SaverFile ==
  /\ saver.pc = "file"
  /\ live' = live \cup {saver.id}
  /\ saver' = Rest
  /\ UNCHANGED <<record, arch, memory, bounds, res, sweep, check, boot>>

-----------------------------------------------------------------------------
(* The ArchiveSweeper.  A session is idle when its last message, stored in   *)
(* seconds, is before a time in milliseconds, so every active one is.        *)

parties == <<res, saver, check, boot>>

SweepArchives ==
  /\ sweep.pc = "idle" /\ boot = "up"
  /\ \E s \in Ids :
       /\ row[s] = "active" /\ Loads(s)
       /\ sweep' = [pc |-> "mark", id |-> s, st |-> "none"]
  /\ UNCHANGED <<record, files, memory, bounds, parties>>

\* do_archive, step A: the record is migrating
ArchiveMarks ==
  LET s == sweep.id IN
  /\ sweep.pc = "mark" /\ Unlocked
  /\ IF row[s] \in {"active", "migrating"}
     THEN /\ row' = [row EXCEPT ![s] = "migrating"]
          /\ sweep' = [sweep EXCEPT !.pc = "move"]
     ELSE sweep' = Rest /\ UNCHANGED row
  /\ UNCHANGED <<dated, files, memory, bounds, parties>>

\* step B: the transcript is moved, unless one is there already; it is an
\* error if there is none to move
ArchiveMoves ==
  LET s == sweep.id IN
  /\ sweep.pc = "move"
  /\ IF s \in arch THEN UNCHANGED files
                   ELSE live' = live \ {s} /\ arch' = arch \cup (live \cap {s})
  /\ sweep' = IF s \in live \cup arch THEN [sweep EXCEPT !.pc = "archive"] ELSE Rest
  /\ UNCHANGED <<record, memory, bounds, parties>>

\* step C: the record, if there is one, is archived, whatever it was
ArchiveEnds ==
  LET s == sweep.id IN
  /\ sweep.pc = "archive" /\ Unlocked
  /\ IF row[s] = "none"
     THEN UNCHANGED record
     ELSE row' = [row EXCEPT ![s] = "archived"] /\ dated' = dated \cup {s}
  /\ sweep' = Rest
  /\ UNCHANGED <<files, memory, bounds, parties>>

\* An archive that has expired is purged: its transcript is deleted, and its
\* record, without another look at the status.  Archives expire long after the
\* handlers have ended that saw the session before it was archived.
SweepPurges ==
  /\ sweep.pc = "idle" /\ boot = "up"
  /\ res.pc = "idle" /\ saver.pc = "idle" /\ check.pc = "idle"
  /\ \E s \in dated : row[s] = "archived"
                      /\ sweep' = [pc |-> "purge", id |-> s, st |-> "none"]
  /\ UNCHANGED <<record, files, memory, bounds, parties>>

Purge ==
  /\ sweep.pc = "purge" /\ Unlocked
  /\ arch' = arch \ {sweep.id}
  /\ sweep' = [sweep EXCEPT !.pc = "delete"]
  /\ UNCHANGED <<record, live, memory, bounds, parties>>

PurgeEnds ==
  /\ sweep.pc = "delete"
  /\ DeleteRecord(sweep.id)
  /\ sweep' = Rest
  /\ UNCHANGED <<files, memory, bounds, parties>>

-----------------------------------------------------------------------------
(* The periodic consistency check lists the records of a status, then        *)
(* deletes those whose transcript is missing, and then the transcripts       *)
(* without a record.                                                         *)

CheckLists ==
  /\ check.pc = "idle" /\ boot = "up"
  /\ \E s \in Ids : row[s] # "none" /\ (row[s] = "archived" => s \in dated)
                    /\ check' = [pc |-> "record", id |-> s, st |-> row[s]]
  /\ UNCHANGED <<record, files, memory, bounds, res, saver, sweep, boot>>

CheckRecord ==
  LET s == check.id IN
  /\ check.pc = "record" /\ Unlocked
  /\ IF HasTranscript(s, check.st)
     THEN UNCHANGED <<record, torn>>
     ELSE DeleteRecord(s) /\ torn' = torn \cup {s}
  /\ check' = Rest
  /\ UNCHANGED <<files, memory, used, messages, crashes, reverted, res, saver, sweep,
                 boot>>

CheckOrphans ==
  /\ check.pc = "idle" /\ boot = "up"
  /\ \E s \in Ids :
       /\ row[s] = "none"
       /\ \/ s \in live /\ live' = live \ {s} /\ UNCHANGED arch
          \/ s \in arch /\ arch' = arch \ {s} /\ UNCHANGED live
  /\ UNCHANGED <<record, memory, bounds, res, saver, sweep, check, boot>>

-----------------------------------------------------------------------------
(* A crash, and the start of the daemon: recover, rebuild_key_registry, the  *)
(* full consistency check.  No session is dirty, because SqliteStorage keeps *)
(* no pending operations; active ones are saved as they were loaded.         *)

Crash ==
  /\ crashes < MaxCrashes
  /\ crashes' = crashes + 1
  /\ torn' = torn \cup {res.id, saver.id, sweep.id, check.id}
  /\ cache' = [s \in Ids |-> "none"] /\ registry' = NoId /\ mem' = {} /\ conv' = {}
  /\ res' = Returned /\ saver' = Rest /\ sweep' = Rest /\ check' = Rest
  /\ boot' = "recover"
  /\ UNCHANGED <<record, files, used, messages, reverted>>

Interrupted == {s \in Ids : row[s] = "migrating" /\ Loads(s)}

\* Mutant of Recover: only archives whose transcript was moved are finished.
RecoverMoved ==
  /\ boot = "recover" /\ sweep.pc = "idle"
  /\ \E s \in Interrupted \cap arch : sweep' = [pc |-> "mark", id |-> s, st |-> "none"]
  /\ UNCHANGED <<record, files, memory, bounds, parties>>

\* scan_migrating_sessions finishes the archives that the crash interrupted.
Recover ==
  /\ boot = "recover" /\ sweep.pc = "idle"
  /\ \E s \in Interrupted : sweep' = [pc |-> "mark", id |-> s, st |-> "none"]
  /\ UNCHANGED <<record, files, memory, bounds, parties>>

\* The scan is over, or it is given up after 10 s; the registry and the cache
\* are filled from the active records that can be loaded.
RebuildRegistry ==
  LET loaded == {s \in Ids : row[s] = "active" /\ Loads(s)} IN
  /\ boot = "recover"
  /\ SlowArchive \/ (sweep.pc = "idle" /\ Interrupted = {})
  /\ \/ registry' \in loaded
     \/ loaded = {} /\ UNCHANGED registry
  /\ cache' = [s \in Ids |-> IF s \in loaded THEN "active" ELSE "none"]
  /\ sweep' = Rest
  /\ boot' = "check"
  /\ UNCHANGED <<record, files, mem, conv, bounds, res, saver, check>>

\* Mutant of StartupCheck: only an active record keeps a transcript.
StartupCheckActive ==
  LET kept == {s \in Ids : row[s] = "active" /\ Loads(s)} IN
  /\ boot = "check"
  /\ row' = [s \in Ids |-> IF Loads(s) THEN row[s] ELSE "none"]
  /\ dated' = dated \cap {s \in Ids : Loads(s)}
  /\ live' = live \cap kept /\ arch' = arch \cap kept
  /\ boot' = "up"
  /\ UNCHANGED <<memory, bounds, res, saver, sweep, check>>

\* The check lists a record by its last_message_at, which a session has from
\* its first message on, or by its archived_at.
StartupCheck ==
  /\ boot = "check"
  /\ \E listed \in SUBSET Ids :
       LET lost == {s \in listed : row[s] # "none" /\ ~Loads(s)}
           kept == {s \in Ids \ lost : row[s] # "none"} IN
       /\ \A s \in Ids : row[s] = "archived" => (s \in listed <=> s \in dated)
       /\ row' = [s \in Ids |-> IF s \in kept THEN row[s] ELSE "none"]
       /\ dated' = dated \cap kept
       /\ live' = live \cap kept /\ arch' = arch \cap kept
  /\ boot' = "up"
  /\ UNCHANGED <<memory, bounds, res, saver, sweep, check>>

-----------------------------------------------------------------------------
Resolver == \/ Path1 \/ Archived \/ GivesUp \/ Restore \/ Activate \/ Rebuild
            \/ QueryActive \/ QueryMigrating \/ QueryArchived \/ Create
            \/ Fields \/ Record \/ File

Sweeper == ArchiveMarks \/ ArchiveMoves \/ ArchiveEnds \/ Purge \/ PurgeEnds

Start == Recover \/ RebuildRegistry \/ StartupCheck

Next ==
  \/ Resolve \/ Resolver
  \/ SaverLoads \/ SaverRecord \/ SaverFile
  \/ SweepArchives \/ SweepPurges \/ Sweeper
  \/ CheckLists \/ CheckRecord \/ CheckOrphans
  \/ Crash \/ Start

Spec == Init /\ [][Next]_vars

\* Tasks that have begun are run to their end.
FairSpec == Spec /\ WF_vars(Resolver) /\ WF_vars(Sweeper) /\ WF_vars(Start)

-----------------------------------------------------------------------------
Pcs == {"idle", "path1", "wait", "restore", "activate", "rebuild", "path3",
        "migrating", "archived", "create", "fields", "record", "file"}

\* Types; a conversation is in memory only with its session, and archived_at
\* has a value only in archived records.
TypeOK ==
  /\ row \in [Ids -> Status \cup {"none"}] /\ cache \in [Ids -> Status \cup {"none"}]
  /\ live \subseteq Ids /\ arch \subseteq Ids
  /\ dated \subseteq {s \in Ids : row[s] = "archived"}
  /\ registry \in Ids \cup {NoId} /\ mem \subseteq Ids /\ conv \subseteq mem
  /\ used \in 0 .. MaxSessions /\ torn \subseteq Ids \cup {NoId}
  /\ reverted \subseteq Ids
  /\ messages \in 0 .. MaxMessages /\ crashes \in 0 .. MaxCrashes
  /\ res.pc \in Pcs /\ res.id \in Ids \cup {NoId}
  /\ saver.pc \in {"idle", "record", "file"}
  /\ sweep.pc \in {"idle", "mark", "move", "archive", "purge", "delete"}
  /\ check.pc \in {"idle", "record"}
  /\ boot \in {"up", "recover", "check"}

\* resolve starts a new session for a user only if at some moment since the
\* message arrived none of the user's sessions could be loaded.  It asks for an
\* active, a migrating and an archived one at three different moments, between
\* which the sweeper may be archiving the very session it looks for.  (Excepted
\* are users of whom a late save has put back a record's status.)
SessionKept == [][used' # used => res.vacant \/ reverted # {}]_vars

\* The consistency check of a restart deletes no transcript of a session with
\* a record, except of sessions that a handler was in the middle of saving,
\* archiving, restoring or purging at a crash, whose record the periodic check
\* had deleted before, or whose status a late save had put back.  So a session
\* at rest keeps its history.
RestartLosesOnlyTorn ==
  [][boot = "check" => \A s \in (live \cup arch) \ (live' \cup arch') :
                         row[s] = "none" \/ s \in torn \cup reverted]_vars

\* resolve returns: it holds the lock of the agent, and every other message
\* to the agent waits for it.
ResolveReturns == res.pc # "idle" ~> res.pc = "idle"

\* An archive that a crash interrupted, before or after its transcript was
\* moved, is finished by the recovery, even if that is interrupted too.
ArchiveResumes ==
  \A s \in Ids : boot = "recover" /\ s \in Interrupted ~> row[s] # "migrating"

\* A session that resolve returns and that can be loaded has a conversation in
\* memory, without which the message is answered with "session not found".
ResolvedIsUsable ==
  [][res.pc # "idle" /\ res'.pc = "idle" /\ boot' = "up" /\ Loads(res.id)
     => res.id \in conv']_vars
=============================================================================
