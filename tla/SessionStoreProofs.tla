------------------------- MODULE SessionStoreProofs -------------------------
(***************************************************************************)
(* Proofs about SessionStore, for every number of messages and crashes.    *)
(*                                                                         *)
(* The state has its types; for each action a lemma says what it does.     *)
(* The check of a restart deletes no transcript of a session at rest       *)
(* (RestartLosesOnlyTorn), and resolve starts a second session only if the *)
(* first could not be loaded (SessionKept).  Both are about archives that  *)
(* end within the time they are waited for (~SlowArchive).  Neither        *)
(* property is inductive: they rest on what the checkpoint cache may say   *)
(* of a session in memory (MemoryInv), and on what a status allows a       *)
(* session's sweep and restore to be doing (StatusInv).                    *)
(***************************************************************************)
EXTENDS SessionStore, TLAPS

-----------------------------------------------------------------------------
(* Types, of the store, of the bounds, of resolve and of the other parties.  *)

Kept == Status \cup {"none"}

DataInv ==
  /\ row \in [Ids -> Kept] /\ cache \in [Ids -> Kept]
  /\ live \subseteq Ids /\ arch \subseteq Ids
  /\ dated \subseteq {s \in Ids : row[s] = "archived"}
  /\ registry \in Ids \cup {NoId} /\ mem \subseteq Ids /\ conv \subseteq mem
  /\ torn \subseteq Ids \cup {NoId} /\ reverted \subseteq Ids

CountInv ==
  /\ used \in 0 .. MaxSessions
  /\ messages \in 0 .. MaxMessages /\ crashes \in 0 .. MaxCrashes
  /\ res.pc \notin {"idle", "fields", "record", "file"} => used < MaxSessions

Froms == Kept \cup {"path2", "path3", "timeout2", "timeout3"}
Resolves == [pc : Pcs, id : Ids \cup {NoId}, st : Froms, vacant : BOOLEAN]

ResInv ==
  /\ res \in Resolves
  /\ res.pc \in {"path1", "wait", "restore", "activate", "rebuild", "fields",
                 "record", "file"} => res.id \in Ids
  /\ res.pc = "record" => res.st \in Status
  /\ res.pc = "wait" => res.st \in {"path2", "path3"}
  /\ res.pc \in {"restore", "activate", "rebuild"} =>
       res.st \in {"path2", "archived", "timeout2", "timeout3"}

WorkInv ==
  /\ saver \in [pc : {"idle", "record", "file"}, id : Ids \cup {NoId}, st : Kept]
  /\ sweep \in [pc : {"idle", "mark", "move", "archive", "purge", "delete"},
                id : Ids \cup {NoId}, st : {"none"}]
  /\ check \in [pc : {"idle", "record"}, id : Ids \cup {NoId}, st : Kept]
  /\ saver.pc # "idle" => saver.id \in Ids /\ saver.st \in Status
  /\ sweep.pc # "idle" <=> sweep.id \in Ids
  /\ check.pc # "idle" => check.id \in Ids /\ check.st \in Status
  /\ boot \in {"up", "recover", "check"}

TypeInv == DataInv /\ CountInv /\ ResInv /\ WorkInv

\* What the steps of each party leave alone.
LEMMA Frames ==
  /\ Resolve \/ Resolver => boot = "up" /\ UNCHANGED <<saver, sweep, check, boot>>
  /\ SaverLoads \/ SaverRecord \/ SaverFile =>
       UNCHANGED <<registry, mem, conv, arch, counts, res, sweep, check, boot>>
  /\ SweepArchives \/ SweepPurges \/ Sweeper \/ Recover =>
       UNCHANGED <<memory, bounds, res, saver, check, boot>>
  /\ CheckLists \/ CheckRecord \/ CheckOrphans =>
       UNCHANGED <<memory, used, messages, crashes, reverted, res, saver, sweep, boot>>
  /\ RebuildRegistry \/ StartupCheck =>
       UNCHANGED <<mem, conv, bounds, res, saver, check>>
<1>1. Resolve \/ Resolver => boot = "up" /\ UNCHANGED <<saver, sweep, check, boot>>
  BY Zenon DEF Resolve, Resolver, Path1, Archived, GivesUp, Restore, Activate, Rebuild,
     QueryActive, QueryMigrating, QueryArchived, Create, Fields, Record, File,
     At, others
<1>2. SaverLoads \/ SaverRecord \/ SaverFile =>
        UNCHANGED <<registry, mem, conv, arch, counts, res, sweep, check, boot>>
  BY Zenon DEF SaverLoads, SaverRecord, SaverFile, memory, files, bounds
<1>3. SweepArchives \/ SweepPurges \/ Sweeper \/ Recover =>
        UNCHANGED <<memory, bounds, res, saver, check, boot>>
  BY Zenon DEF SweepArchives, SweepPurges, Sweeper, ArchiveMarks, ArchiveMoves,
     ArchiveEnds, Purge, PurgeEnds, Recover, parties
<1>4. CheckLists \/ CheckRecord \/ CheckOrphans =>
        UNCHANGED <<memory, used, messages, crashes, reverted, res, saver, sweep, boot>>
  BY Zenon DEF CheckLists, CheckRecord, CheckOrphans, bounds, counts
<1>5. RebuildRegistry \/ StartupCheck =>
        UNCHANGED <<mem, conv, bounds, res, saver, check>>
  BY Zenon DEF RebuildRegistry, StartupCheck, memory
<1>. QED
  BY <1>1, <1>2, <1>3, <1>4, <1>5, Zenon

\* The steps of the specification.
LEMMA Steps ==
  ASSUME [Next]_vars
  PROVE  \/ Resolve \/ Path1 \/ Archived \/ GivesUp \/ Restore \/ Activate \/ Rebuild
         \/ QueryActive \/ QueryMigrating \/ QueryArchived \/ Create \/ Fields
         \/ Record \/ File
         \/ SaverLoads \/ SaverRecord \/ SaverFile
         \/ SweepArchives \/ SweepPurges
         \/ Sweeper /\ (ArchiveMarks \/ ArchiveMoves \/ ArchiveEnds \/ Purge \/ PurgeEnds)
         \/ CheckLists \/ CheckRecord \/ CheckOrphans
         \/ Crash \/ Recover \/ RebuildRegistry \/ StartupCheck
         \/ UNCHANGED vars
BY Zenon DEF Next, Resolver, Sweeper, Start

\* Archives, purges and checks take a status forward.
LEMMA RowsForward ==
  ASSUME TypeInv,
         ArchiveMarks \/ ArchiveEnds \/ PurgeEnds \/ CheckRecord \/ StartupCheck,
         NEW s \in Ids
  PROVE  \/ row'[s] = row[s] \/ row'[s] = "none"
         \/ row[s] \in {"active", "migrating"} /\ row'[s] = "migrating"
         \/ row[s] # "none" /\ row'[s] = "archived"
<1>. DataInv /\ WorkInv
  BY Zenon DEF TypeInv
<1>. USE DEF DataInv, record
<1>1. CASE ArchiveMarks
  BY <1>1, Zenon DEF ArchiveMarks
<1>2. CASE ArchiveEnds
  BY <1>2, Zenon DEF ArchiveEnds
<1>3. CASE PurgeEnds
  BY <1>3, Zenon DEF PurgeEnds, DeleteRecord
<1>4. CASE CheckRecord
  BY <1>4, Zenon DEF CheckRecord, DeleteRecord
<1>5. CASE StartupCheck
  BY <1>5, Zenon DEF StartupCheck
<1>. QED
  BY <1>1, <1>2, <1>3, <1>4, <1>5, Zenon

\* No id is the id of no session, and ids do not run out before the bound.
LEMMA IdFacts == NoId \notin Ids /\ (CountInv /\ used < MaxSessions => used + 1 \in Ids)
  BY StoreAssumption DEF Ids, NoId, CountInv

\* resolve is idle when it has returned.
LEMMA ReturnedIdle ==
  /\ Returned \in Resolves /\ Returned.pc = "idle" /\ Returned.id = NoId
  /\ ~Returned.vacant
BY Zenon DEF Returned, Resolves, Froms, Kept, Pcs

\* A checkpoint that is loaded has a status, cached or stored.
LEMMA LoadKept ==
  ASSUME TypeInv, NEW s \in Ids
  PROVE load(s) \in Kept
BY Zenon DEF TypeInv, DataInv, Kept, load

-----------------------------------------------------------------------------
(* Where each step of resolve leads.                                         *)

\* resolve is now at pc, with session s, called from or to save st, and if it
\* has met no moment without a session yet, then some session can be loaded.
Moved(pc, s, st) ==
  /\ res' \in Resolves
  /\ res'.pc = pc /\ res'.id = s /\ res'.st = st
  /\ ~res'.vacant => ~res.vacant /\ \E t \in Ids : Loads(t)

\* resolve is now at pc and works on the same session.
Stays(pc) ==
  /\ res' \in Resolves
  /\ res'.pc = pc /\ res'.id = res.id /\ res'.st = res.st
  /\ res'.vacant = res.vacant

\* Goes(pc, s, st) has resolve moved there.
LEMMA GoesTo ==
  ASSUME TypeInv, NEW pc \in Pcs, NEW s \in Ids \cup {NoId}, NEW st \in Froms,
         Goes(pc, s, st)
  PROVE  Moved(pc, s, st)
<1>. DEFINE v == res.vacant \/ \A t \in Ids : ~Loads(t)
<1>1. v \in BOOLEAN
  BY Zenon DEF TypeInv, ResInv, Resolves
<1>2. res' = [pc |-> pc, id |-> s, st |-> st, vacant |-> v]
  BY Zenon DEF Goes
<1>. HIDE DEF v
<1>3. /\ res' \in Resolves
      /\ res'.pc = pc /\ res'.id = s /\ res'.st = st /\ res'.vacant = v
  BY <1>1, <1>2, Zenon DEF Resolves
<1>. QED
  BY <1>3, <1>1, Zenon DEF v, Moved

\* A step that only changes pc.
LEMMA MovesOn ==
  ASSUME TypeInv, NEW pc \in Pcs, res' = [res EXCEPT !.pc = pc]
  PROVE  Stays(pc)
BY Zenon DEF TypeInv, ResInv, Resolves, Stays

\* resolve begins with path 1, with a restore, or with path 3.
LEMMA ResolveGoes ==
  ASSUME TypeInv, Resolve
  PROVE  \/ registry \in Ids \cap mem /\ Moved("path1", registry, "none")
         \/ registry \in Ids \ mem /\ Moved("restore", registry, "path2")
         \/ registry = NoId /\ Moved("path3", NoId, "none")
<1>1. \/ registry \in mem /\ Goes("path1", registry, "none")
      \/ registry \in Ids \ mem /\ Goes("restore", registry, "path2")
      \/ registry = NoId /\ Goes("path3", NoId, "none")
  BY IdFacts, Zenon DEF Resolve, TypeInv, DataInv
<1>2. registry \in mem => registry \in Ids
  BY Zenon DEF TypeInv, DataInv
<1>. QED
  BY <1>1, <1>2, GoesTo, Zenon DEF Pcs, Froms, Kept

\* Path 1 goes by the status that is loaded.
LEMMA Path1Goes ==
  ASSUME TypeInv, Path1
  PROVE  \/ /\ load(res.id) \in {"active", "none"}
            /\ Moved("fields", res.id, "none") /\ UNCHANGED <<registry, mem, conv>>
         \/ /\ load(res.id) = "migrating"
            /\ Moved("wait", res.id, "path2") /\ UNCHANGED <<registry, mem, conv>>
         \/ /\ load(res.id) = "archived"
            /\ Moved("restore", res.id, "path2")
            /\ registry' = NoId /\ mem' = mem \ {res.id} /\ conv' = conv \ {res.id}
<1>1. res.id \in Ids
  BY Zenon DEF TypeInv, ResInv, Path1, At
<1>2. CASE load(res.id) \in {"active", "none"}
  BY <1>1, <1>2, GoesTo, Zenon DEF Path1, Pcs, Froms, Kept
<1>3. CASE load(res.id) = "migrating"
  BY <1>1, <1>3, GoesTo, Zenon DEF Path1, Pcs, Froms, Kept
<1>4. CASE load(res.id) = "archived"
  BY <1>1, <1>4, GoesTo, Zenon DEF Path1, Pcs, Froms, Kept
<1>. QED
  BY <1>1, <1>2, <1>3, <1>4, LoadKept, Zenon DEF Kept, Status

\* The wait for an archive ends or is given up.
LEMMA WaitGoes ==
  ASSUME TypeInv
  PROVE  /\ Archived => \/ res.st = "path2" /\ Moved("restore", res.id, "path2")
                        \/ res.st = "path3" /\ Moved("archived", NoId, "none")
         /\ GivesUp => \/ res.st = "path2" /\ Moved("restore", res.id, "timeout2")
                       \/ res.st = "path3" /\ Moved("restore", res.id, "timeout3")
<1>1. ASSUME At("wait") PROVE res.id \in Ids /\ res.st \in {"path2", "path3"}
  BY <1>1, Zenon DEF TypeInv, ResInv, At
<1>2. Archived => \/ res.st = "path2" /\ Moved("restore", res.id, "path2")
                  \/ res.st = "path3" /\ Moved("archived", NoId, "none")
  BY <1>1, GoesTo, Zenon DEF Archived, Pcs, Froms, Kept
<1>. QED
  BY <1>1, <1>2, GoesTo, Zenon DEF GivesUp, Pcs, Froms, Kept

\* Where resolve goes on when a session cannot be restored.
LEMMA NotRestoredGoes ==
  ASSUME TypeInv, res.pc \in {"restore", "activate"}, NotRestored(res.id)
  PROVE  \/ res.st = "path2" /\ Moved("path3", NoId, "none")
         \/ res.st = "archived" /\ Moved("create", NoId, "none")
         \/ res.st = "timeout2" /\ Moved("restore", res.id, "path2")
         \/ res.st = "timeout3" /\ Moved("archived", NoId, "none")
<1>1. res.id \in Ids
  BY Zenon DEF TypeInv, ResInv
<1>2. \/ res.st = "path2" /\ Goes("path3", NoId, "none")
      \/ res.st = "archived" /\ Goes("create", NoId, "none")
      \/ res.st = "timeout2" /\ Goes("restore", res.id, "path2")
      \/ res.st = "timeout3" /\ Goes("archived", NoId, "none")
  BY Zenon DEF NotRestored, TypeInv, ResInv
<1>. QED
  BY <1>1, <1>2, GoesTo, Zenon DEF Pcs, Froms, Kept

\* A restore goes on to activate the record, or the session is not restored.
LEMMA RestoreGoes ==
  ASSUME TypeInv, Restore
  PROVE  \/ /\ res.st \in {"path2", "archived"} => Loads(res.id) /\ row[res.id] = "archived"
            /\ row[res.id] \in {"archived", "migrating"}
            /\ Stays("activate")
            /\ IF res.id \in arch /\ res.id \notin live
               THEN live' = live \cup {res.id} /\ arch' = arch \ {res.id}
               ELSE UNCHANGED <<live, arch>>
         \/ /\ IF res.st \in {"path2", "archived"}
               THEN ~(Loads(res.id) /\ row[res.id] = "archived")
               ELSE row[res.id] \notin {"archived", "migrating"}
            /\ NotRestored(res.id) /\ UNCHANGED <<live, arch>>
BY MovesOn, Zenon DEF Restore, files, Pcs

\* A record that was activated and then loads is rebuilt.
LEMMA ActivateGoes ==
  ASSUME TypeInv, Activate
  PROVE  \/ res.id \in live /\ Stays("rebuild")
         \/ res.id \notin live /\ NotRestored(res.id)
BY MovesOn, Zenon DEF Activate, Pcs

\* A rebuilt session is saved, with the status that was loaded.
LEMMA RebuildGoes ==
  ASSUME TypeInv, Rebuild
  PROVE  \/ Moved("fields", res.id, "none") /\ UNCHANGED <<cache, mem, conv>>
         \/ \E st \in Status :
              /\ Moved("record", res.id, st)
              /\ cache' = [cache EXCEPT ![res.id] = st]
              /\ mem' = mem \cup {res.id} /\ conv' = conv \cup {res.id}
<1>1. res.id \in Ids
  BY Zenon DEF TypeInv, ResInv, Rebuild, At
<1>2. \/ Goes("fields", res.id, "none") /\ UNCHANGED <<cache, mem, conv>>
      \/ \E st \in Status :
           /\ Goes("record", res.id, st)
           /\ cache' = [cache EXCEPT ![res.id] = st]
           /\ mem' = mem \cup {res.id} /\ conv' = conv \cup {res.id}
  BY <1>1, LoadKept, Zenon DEF Rebuild, TypeInv, DataInv, Kept
<1>. QED
  BY <1>1, <1>2, GoesTo, Zenon DEF Pcs, Froms, Kept

\* The three queries of path 3.
LEMMA QueryGoes ==
  ASSUME TypeInv
  PROVE  /\ QueryActive =>
              \/ /\ \A s \in Ids : row[s] # "active"
                 /\ Moved("migrating", NoId, "none") /\ UNCHANGED <<registry, mem>>
              \/ \E s \in Ids : /\ row[s] = "active"
                                /\ registry' = s /\ mem' = mem \cup {s}
                                /\ Moved("fields", s, "none")
         /\ QueryMigrating =>
              \/ (\A s \in Ids : row[s] # "migrating") /\ Moved("archived", NoId, "none")
              \/ \E s \in Ids : row[s] = "migrating" /\ Moved("wait", s, "path3")
         /\ QueryArchived =>
              \/ (\A s \in Ids : row[s] # "archived") /\ Moved("create", NoId, "none")
              \/ \E s \in Ids : row[s] = "archived" /\ Moved("restore", s, "archived")
<1>. USE DEF Pcs, Froms, Kept, Status
<1>1. ASSUME QueryActive
      PROVE  \/ /\ \A s \in Ids : row[s] # "active"
                /\ Moved("migrating", NoId, "none") /\ UNCHANGED <<registry, mem>>
             \/ \E s \in Ids : /\ row[s] = "active"
                               /\ registry' = s /\ mem' = mem \cup {s}
                               /\ Moved("fields", s, "none")
  BY <1>1, GoesTo, Zenon DEF QueryActive
<1>2. ASSUME QueryMigrating
      PROVE  \/ (\A s \in Ids : row[s] # "migrating") /\ Moved("archived", NoId, "none")
             \/ \E s \in Ids : row[s] = "migrating" /\ Moved("wait", s, "path3")
  BY <1>2, GoesTo, Zenon DEF QueryMigrating
<1>3. ASSUME QueryArchived
      PROVE  \/ (\A s \in Ids : row[s] # "archived") /\ Moved("create", NoId, "none")
             \/ \E s \in Ids : row[s] = "archived" /\ Moved("restore", s, "archived")
  BY <1>3, GoesTo, Zenon DEF QueryArchived
<1>. QED
  BY <1>1, <1>2, <1>3, Zenon

\* A new session has the next id.
LEMMA CreateGoes ==
  ASSUME TypeInv, Create
  PROVE  used' = used + 1 /\ used' \in Ids /\ Moved("record", used', "active")
<1>1. used' = used + 1 /\ used' \in Ids /\ Goes("record", used', "active")
  BY IdFacts, Zenon DEF Create, At, TypeInv, CountInv
<1>. QED
  BY <1>1, GoesTo, Zenon DEF Pcs, Froms, Kept, Status

\* update_checkpoint_fields saves what it loads, if anything.
LEMMA FieldsGoes ==
  ASSUME TypeInv, Fields
  PROVE  \/ load(res.id) = "none" /\ res' = Returned
         \/ load(res.id) \in Status /\ Moved("record", res.id, load(res.id))
<1>1. res.id \in Ids
  BY Zenon DEF TypeInv, ResInv, Fields, At
<1>. QED
  BY <1>1, LoadKept, GoesTo, Zenon DEF Fields, Kept, Pcs, Froms

-----------------------------------------------------------------------------
(* What each step does to the session it works on, as the invariants below   *)
(* need it: the guard it had, where it leads, and what it leaves alone.      *)

\* g is f with the value v at s.
Sets(f, g, s, v) == \A t \in Ids : g[t] = IF t = s THEN v ELSE f[t]

\* Session s is saved with status st.
Saved(s, st) ==
  /\ s \in Ids /\ st \in Status
  /\ Sets(cache, cache', s, st) /\ Sets(row, row', s, st) /\ dated' = dated \ {s}
  /\ reverted' = IF st \notin {"active", row[s]} THEN reverted \cup {s} ELSE reverted

\* The beginning of resolve only reads the registry.
LEMMA ResolveDoes ==
  ASSUME TypeInv, Resolve
  PROVE  /\ res.pc = "idle" /\ boot = "up"
         /\ UNCHANGED <<row, dated, live, arch, cache, registry, mem, used, torn,
                        reverted, saver, sweep, boot>>
         /\ \/ registry \in Ids \cap mem /\ Moved("path1", registry, "none")
            \/ registry \in Ids \ mem /\ Moved("restore", registry, "path2")
            \/ registry = NoId /\ Moved("path3", NoId, "none")
BY ResolveGoes, Zenon DEF Resolve, At, record, files, memory, bounds, counts, others

\* Path 1 caches what it loads, and forgets an archived session.
LEMMA Path1Does ==
  ASSUME TypeInv, Path1
  PROVE  /\ res.pc = "path1" /\ boot = "up" /\ res.id \in Ids
         /\ Sets(cache, cache', res.id, load(res.id))
         /\ UNCHANGED <<row, dated, live, arch, used, torn, reverted, saver, sweep, boot>>
         /\ \/ /\ load(res.id) \in {"active", "none"} /\ Moved("fields", res.id, "none")
               /\ UNCHANGED <<registry, mem>>
            \/ /\ load(res.id) = "migrating" /\ Moved("wait", res.id, "path2")
               /\ UNCHANGED <<registry, mem>>
            \/ /\ load(res.id) = "archived" /\ Moved("restore", res.id, "path2")
               /\ registry' = NoId /\ mem' = mem \ {res.id}
<1>1. cache \in [Ids -> Kept] /\ (res.pc = "path1" => res.id \in Ids)
  BY Zenon DEF TypeInv, DataInv, ResInv
<1>2. /\ cache' = [cache EXCEPT ![res.id] = load(res.id)]
      /\ res.pc = "path1" /\ boot = "up"
      /\ UNCHANGED <<row, dated, live, arch, used, torn, reverted, saver, sweep, boot>>
  BY Zenon DEF Path1, At, record, files, bounds, counts, others
<1>. QED
  BY <1>1, <1>2, Path1Goes, Zenon DEF Sets

\* A wait for an archive that is given up forgets the session of path 2.
LEMMA WaitDoes ==
  ASSUME TypeInv, Archived \/ GivesUp
  PROVE  /\ res.pc = "wait" /\ boot = "up" /\ res.id \in Ids
         /\ UNCHANGED <<row, dated, live, arch, cache, used, torn, reverted, saver,
                        sweep, boot>>
         /\ \/ /\ Loads(res.id) /\ row[res.id] = "archived"
               /\ UNCHANGED <<registry, mem>>
               /\ \/ res.st = "path2" /\ Moved("restore", res.id, "path2")
                  \/ res.st = "path3" /\ Moved("archived", NoId, "none")
            \/ /\ SlowArchive \/ sweep.id # res.id
               /\ ~(Loads(res.id) /\ row[res.id] = "archived")
               /\ \/ /\ res.st = "path2" /\ Moved("restore", res.id, "timeout2")
                     /\ registry' = NoId /\ mem' = mem \ {res.id}
                  \/ /\ res.st = "path3" /\ Moved("restore", res.id, "timeout3")
                     /\ UNCHANGED <<registry, mem>>
<1>1. res.pc = "wait" => res.id \in Ids
  BY Zenon DEF TypeInv, ResInv
<1>2. CASE Archived
  BY <1>1, <1>2, WaitGoes, Zenon DEF Archived, At, record, files, memory, bounds, counts, others
<1>3. CASE GivesUp
  BY <1>1, <1>3, WaitGoes, Zenon DEF GivesUp, At, record, files, bounds, counts, others
<1>. QED
  BY <1>2, <1>3, Zenon

\* A restore moves the transcript back, or changes nothing.
LEMMA RestoreDoes ==
  ASSUME TypeInv, Restore
  PROVE  /\ res.pc = "restore" /\ boot = "up" /\ res.id \in Ids /\ sweep.pc # "delete"
         /\ UNCHANGED <<row, dated, cache, registry, mem, used, torn, reverted, saver,
                        sweep, boot>>
         /\ \/ /\ res.st \in {"timeout2", "timeout3"} \/ row[res.id] = "archived"
               /\ row[res.id] \in {"archived", "migrating"}
               /\ Stays("activate")
               /\ IF res.id \in arch /\ res.id \notin live
                  THEN live' = live \cup {res.id} /\ arch' = arch \ {res.id}
                  ELSE UNCHANGED <<live, arch>>
            \/ /\ UNCHANGED <<live, arch>>
               /\ \/ /\ ~(Loads(res.id) /\ row[res.id] = "archived")
                     /\ \/ res.st = "path2" /\ Moved("path3", NoId, "none")
                        \/ res.st = "archived" /\ Moved("create", NoId, "none")
                  \/ /\ row[res.id] \notin {"archived", "migrating"}
                     /\ \/ res.st = "timeout2" /\ Moved("restore", res.id, "path2")
                        \/ res.st = "timeout3" /\ Moved("archived", NoId, "none")
<1>1. res.pc = "restore" /\ boot = "up" /\ sweep.pc # "delete"
      /\ UNCHANGED <<row, dated, cache, registry, mem, used, torn, reverted, saver,
                     sweep, boot>>
  BY Zenon DEF Restore, At, Unlocked, record, memory, bounds, counts, others
<1>2. res.id \in Ids /\ res.st \in {"path2", "archived", "timeout2", "timeout3"}
  BY <1>1, Zenon DEF TypeInv, ResInv
<1>. QED
  BY <1>1, <1>2, RestoreGoes, NotRestoredGoes, Zenon

\* The record becomes active.
LEMMA ActivateDoes ==
  ASSUME TypeInv, Activate
  PROVE  /\ res.pc = "activate" /\ boot = "up" /\ res.id \in Ids
         /\ Sets(row, row', res.id, "active") /\ dated' = dated \ {res.id}
         /\ UNCHANGED <<live, arch, cache, registry, mem, used, torn, reverted, saver,
                        sweep, boot>>
         /\ \/ res.id \in live /\ Stays("rebuild")
            \/ /\ res.id \notin live
               /\ \/ res.st = "path2" /\ Moved("path3", NoId, "none")
                  \/ res.st = "archived" /\ Moved("create", NoId, "none")
                  \/ res.st = "timeout2" /\ Moved("restore", res.id, "path2")
                  \/ res.st = "timeout3" /\ Moved("archived", NoId, "none")
<1>1. /\ res.pc = "activate" /\ boot = "up"
      /\ row' = [row EXCEPT ![res.id] = "active"] /\ dated' = dated \ {res.id}
      /\ UNCHANGED <<live, arch, cache, registry, mem, used, torn, reverted, saver,
                     sweep, boot>>
  BY Zenon DEF Activate, At, files, memory, bounds, counts, others
<1>2. row \in [Ids -> Kept] /\ res.id \in Ids
  BY <1>1, Zenon DEF TypeInv, DataInv, ResInv
<1>. QED
  BY <1>1, <1>2, ActivateGoes, NotRestoredGoes, Zenon DEF Sets

\* A rebuilt session is registered.
LEMMA RebuildDoes ==
  ASSUME TypeInv, Rebuild
  PROVE  /\ res.pc = "rebuild" /\ boot = "up" /\ res.id \in Ids /\ registry' = res.id
         /\ UNCHANGED <<row, dated, live, arch, used, torn, reverted, saver, sweep, boot>>
         /\ \/ Moved("fields", res.id, "none") /\ UNCHANGED <<cache, mem>>
            \/ \E st \in Status : /\ Moved("record", res.id, st)
                                  /\ Sets(cache, cache', res.id, st)
                                  /\ mem' = mem \cup {res.id}
<1>1. /\ res.pc = "rebuild" /\ boot = "up" /\ registry' = res.id
      /\ UNCHANGED <<row, dated, live, arch, used, torn, reverted, saver, sweep, boot>>
  BY Zenon DEF Rebuild, At, record, files, bounds, counts, others
<1>2. cache \in [Ids -> Kept] /\ res.id \in Ids
  BY <1>1, Zenon DEF TypeInv, DataInv, ResInv
<1>. QED
  BY <1>1, <1>2, RebuildGoes, Zenon DEF Sets

\* Only the query for an active session registers what it finds.
LEMMA QueryDoes ==
  ASSUME TypeInv, QueryActive \/ QueryMigrating \/ QueryArchived
  PROVE  /\ boot = "up"
         /\ UNCHANGED <<row, dated, live, arch, cache, used, torn, reverted, saver,
                        sweep, boot>>
         /\ \/ /\ res.pc = "path3" /\ (\A s \in Ids : row[s] # "active")
               /\ Moved("migrating", NoId, "none") /\ UNCHANGED <<registry, mem>>
            \/ /\ res.pc = "path3"
               /\ \E s \in Ids : /\ row[s] = "active" /\ Moved("fields", s, "none")
                                 /\ registry' = s /\ mem' = mem \cup {s}
            \/ /\ res.pc = "migrating" /\ (\A s \in Ids : row[s] # "migrating")
               /\ Moved("archived", NoId, "none") /\ UNCHANGED <<registry, mem>>
            \/ /\ res.pc = "migrating" /\ UNCHANGED <<registry, mem>>
               /\ \E s \in Ids : row[s] = "migrating" /\ Moved("wait", s, "path3")
            \/ /\ res.pc = "archived" /\ (\A s \in Ids : row[s] # "archived")
               /\ Moved("create", NoId, "none") /\ UNCHANGED <<registry, mem>>
            \/ /\ res.pc = "archived" /\ UNCHANGED <<registry, mem>>
               /\ \E s \in Ids : row[s] = "archived" /\ Moved("restore", s, "archived")
<1>. USE DEF At, record, files, bounds, counts, others
<1>1. CASE QueryActive
  BY <1>1, QueryGoes, Zenon DEF QueryActive
<1>2. CASE QueryMigrating
  BY <1>2, QueryGoes, Zenon DEF QueryMigrating, memory
<1>3. CASE QueryArchived
  BY <1>3, QueryGoes, Zenon DEF QueryArchived, memory
<1>. QED
  BY <1>1, <1>2, <1>3, Zenon

\* A new session is registered, and has no record yet.
LEMMA CreateDoes ==
  ASSUME TypeInv, Create
  PROVE  /\ res.pc = "create" /\ boot = "up"
         /\ used' = used + 1 /\ used' \in Ids /\ Moved("record", used', "active")
         /\ registry' = used' /\ mem' = mem \cup {used'}
         /\ UNCHANGED <<row, dated, live, arch, cache, torn, reverted, saver, sweep, boot>>
BY CreateGoes, Zenon DEF Create, At, record, files, others

\* update_checkpoint_fields caches what it loads.
LEMMA FieldsDoes ==
  ASSUME TypeInv, Fields
  PROVE  /\ res.pc = "fields" /\ boot = "up" /\ res.id \in Ids
         /\ Sets(cache, cache', res.id, load(res.id))
         /\ UNCHANGED <<row, dated, live, arch, registry, mem, used, torn, reverted,
                        saver, sweep, boot>>
         /\ \/ load(res.id) = "none" /\ res' = Returned
            \/ load(res.id) \in Status /\ Moved("record", res.id, load(res.id))
<1>1. /\ res.pc = "fields" /\ boot = "up"
      /\ cache' = [cache EXCEPT ![res.id] = load(res.id)]
      /\ UNCHANGED <<row, dated, live, arch, registry, mem, used, torn, reverted,
                     saver, sweep, boot>>
  BY Zenon DEF Fields, At, record, files, bounds, counts, others
<1>2. cache \in [Ids -> Kept] /\ res.id \in Ids
  BY <1>1, Zenon DEF TypeInv, DataInv, ResInv
<1>. QED
  BY <1>1, <1>2, FieldsGoes, Zenon DEF Sets

\* The record is saved without the lock of a purge.
LEMMA RecordDoes ==
  ASSUME TypeInv, Record
  PROVE  /\ res.pc = "record" /\ boot = "up" /\ sweep.pc # "delete"
         /\ Saved(res.id, res.st) /\ Stays("file")
         /\ UNCHANGED <<live, arch, registry, mem, used, torn, saver, sweep, boot>>
<1>1. /\ res.pc = "record" /\ boot = "up" /\ sweep.pc # "delete"
      /\ SaveRecord(res.id, res.st) /\ Stays("file")
      /\ UNCHANGED <<live, arch, registry, mem, used, torn, saver, sweep, boot>>
  BY MovesOn, Zenon DEF Record, At, Unlocked, files, counts, others, Pcs
<1>2. row \in [Ids -> Kept] /\ cache \in [Ids -> Kept] /\ res.id \in Ids /\ res.st \in Status
  BY <1>1, Zenon DEF TypeInv, DataInv, ResInv
<1>. QED
  BY <1>1, <1>2, Zenon DEF SaveRecord, Saved, Sets

\* The transcript is written.
LEMMA FileDoes ==
  ASSUME TypeInv, File
  PROVE  /\ res.pc = "file" /\ boot = "up" /\ res.id \in Ids
         /\ live' = live \cup {res.id} /\ res' = Returned
         /\ UNCHANGED <<row, dated, arch, cache, registry, mem, used, torn, reverted,
                        saver, sweep, boot>>
BY Zenon DEF File, At, record, memory, bounds, counts, others, TypeInv, ResInv

\* The other handlers save what they have loaded ...
LEMMA SaverLoadsDoes ==
  ASSUME TypeInv, SaverLoads
  PROVE  /\ saver.pc = "idle" /\ saver'.pc = "record" /\ saver'.id \in mem \cap Ids
         /\ saver'.st = load(saver'.id) /\ saver'.st \in Status
         /\ Sets(cache, cache', saver'.id, load(saver'.id))
         /\ UNCHANGED <<row, dated, live, arch, registry, mem, used, torn, reverted,
                        res, sweep, boot>>
<1>1. PICK s \in mem : /\ load(s) # "none"
                       /\ cache' = [cache EXCEPT ![s] = load(s)]
                       /\ saver' = [pc |-> "record", id |-> s, st |-> load(s)]
  BY Zenon DEF SaverLoads
<1>2. cache \in [Ids -> Kept] /\ s \in Ids
  BY Zenon DEF TypeInv, DataInv
<1>3. load(s) \in Status
  BY <1>1, <1>2, LoadKept, Zenon DEF Kept
<1>. QED
  BY <1>1, <1>2, <1>3, Zenon DEF SaverLoads, Sets, record, files, bounds, counts

\* ... whatever the status has become.
LEMMA SaverDoes ==
  ASSUME TypeInv
  PROVE  /\ SaverRecord =>
              /\ saver.pc = "record" /\ saver'.pc = "file" /\ saver'.id = saver.id
              /\ Saved(saver.id, saver.st) /\ res.pc # "activate" /\ sweep.pc # "delete"
              /\ UNCHANGED <<live, arch, registry, mem, used, torn, res, sweep, boot>>
         /\ SaverFile =>
              /\ saver.pc = "file" /\ saver' = Rest /\ saver.id \in Ids
              /\ live' = live \cup {saver.id}
              /\ UNCHANGED <<row, dated, arch, cache, registry, mem, used, torn,
                             reverted, res, sweep, boot>>
<1>1. ASSUME SaverRecord
      PROVE  /\ saver.pc = "record" /\ saver'.pc = "file" /\ saver'.id = saver.id
             /\ Saved(saver.id, saver.st) /\ res.pc # "activate" /\ sweep.pc # "delete"
             /\ UNCHANGED <<live, arch, registry, mem, used, torn, res, sweep, boot>>
  <2>1. /\ saver.pc = "record" /\ res.pc # "activate" /\ sweep.pc # "delete"
        /\ SaveRecord(saver.id, saver.st)
        /\ saver' = [saver EXCEPT !.pc = "file"]
        /\ UNCHANGED <<live, arch, registry, mem, used, torn, res, sweep, boot>>
    BY <1>1, Zenon DEF SaverRecord, Unlocked, files, counts
  <2>2. /\ row \in [Ids -> Kept] /\ cache \in [Ids -> Kept]
        /\ saver.id \in Ids /\ saver.st \in Status
        /\ saver'.pc = "file" /\ saver'.id = saver.id
    BY <2>1, Zenon DEF TypeInv, DataInv, WorkInv
  <2>. QED
    BY <2>1, <2>2, Zenon DEF SaveRecord, Saved, Sets
<1>2. SaverFile => /\ saver.pc = "file" /\ saver' = Rest /\ saver.id \in Ids
                   /\ live' = live \cup {saver.id}
                   /\ UNCHANGED <<row, dated, arch, cache, registry, mem, used, torn,
                                  reverted, res, sweep, boot>>
  BY Zenon DEF SaverFile, record, memory, bounds, counts, TypeInv, WorkInv
<1>. QED
  BY <1>1, <1>2, Zenon

\* An archive begins with an active record, or with one that a crash has left
\* migrating; a purge begins while resolve is idle.
LEMMA SweepBegins ==
  ASSUME TypeInv, SweepArchives \/ SweepPurges \/ Recover
  PROVE  /\ sweep.pc = "idle" /\ sweep'.id \in Ids
         /\ \/ sweep'.pc = "mark" /\ boot = "up" /\ row[sweep'.id] = "active"
            \/ sweep'.pc = "mark" /\ boot = "recover" /\ row[sweep'.id] = "migrating"
            \/ sweep'.pc = "purge" /\ boot = "up" /\ res.pc = "idle"
         /\ UNCHANGED <<row, dated, live, arch, cache, registry, mem, used, torn,
                        reverted, res, saver, boot>>
<1>1. UNCHANGED <<row, dated, live, arch, cache, registry, mem, used, torn, reverted,
                  res, saver, boot>>
  BY Zenon DEF SweepArchives, SweepPurges, Recover, record, files, memory, bounds, counts,
     parties
<1>2. CASE SweepArchives
  BY <1>1, <1>2 DEF SweepArchives
<1>3. CASE SweepPurges
  BY <1>1, <1>3 DEF SweepPurges, TypeInv, DataInv
<1>4. CASE Recover
  BY <1>1, <1>4 DEF Recover, Interrupted
<1>. QED
  BY <1>2, <1>3, <1>4, Zenon

\* While the sweeper is at work on a session it changes nothing in memory.
LEMMA SweepType ==
  ASSUME TypeInv, Sweeper
  PROVE  /\ sweep.id \in Ids /\ row \in [Ids -> Kept]
         /\ sweep \in [pc : {"idle", "mark", "move", "archive", "purge", "delete"},
                       id : Ids \cup {NoId}, st : {"none"}]
         /\ UNCHANGED <<cache, registry, mem, used, torn, reverted, res, saver, boot>>
<1>1. UNCHANGED <<cache, registry, mem, used, torn, reverted, res, saver, boot>>
  BY Zenon DEF Sweeper, ArchiveMarks, ArchiveMoves, ArchiveEnds, Purge, PurgeEnds,
     memory, bounds, counts, parties
<1>2. sweep.pc # "idle"
  BY Zenon DEF Sweeper, ArchiveMarks, ArchiveMoves, ArchiveEnds, Purge, PurgeEnds
<1>. QED
  BY <1>1, <1>2, Zenon DEF TypeInv, DataInv, WorkInv

\* An archive marks the record as migrating, ...
LEMMA MarkDoes ==
  ASSUME TypeInv, Sweeper, ArchiveMarks
  PROVE  /\ sweep.pc = "mark" /\ Unlocked /\ UNCHANGED <<dated, live, arch>>
         /\ \/ /\ row[sweep.id] \in {"active", "migrating"}
               /\ sweep'.pc = "move" /\ sweep'.id = sweep.id
               /\ Sets(row, row', sweep.id, "migrating")
            \/ sweep' = Rest /\ UNCHANGED row
BY SweepType, Zenon DEF ArchiveMarks, Sets, files

\* ... moves the transcript, ...
LEMMA MoveDoes ==
  ASSUME TypeInv, Sweeper, ArchiveMoves
  PROVE  /\ sweep.pc = "move" /\ UNCHANGED <<row, dated>>
         /\ IF sweep.id \in arch
            THEN UNCHANGED <<live, arch>>
            ELSE live' = live \ {sweep.id} /\ arch' = arch \cup (live \cap {sweep.id})
         /\ \/ /\ sweep'.pc = "archive" /\ sweep'.id = sweep.id
               /\ sweep.id \in live \cup arch
            \/ sweep' = Rest /\ sweep.id \notin live \cup arch
BY SweepType, Zenon DEF ArchiveMoves, record, files

\* ... and marks the record as archived.
LEMMA EndDoes ==
  ASSUME TypeInv, Sweeper, ArchiveEnds
  PROVE  /\ sweep.pc = "archive" /\ Unlocked /\ sweep' = Rest
         /\ \/ row[sweep.id] = "none" /\ UNCHANGED <<row, dated>>
            \/ /\ row[sweep.id] # "none" /\ Sets(row, row', sweep.id, "archived")
               /\ dated' = dated \cup {sweep.id}
         /\ UNCHANGED <<live, arch>>
BY SweepType, Zenon DEF ArchiveEnds, Sets, record, files

\* A purge deletes the transcript and then the record.
LEMMA PurgeDoes ==
  ASSUME TypeInv, Sweeper, Purge \/ PurgeEnds
  PROVE  \/ /\ sweep.pc = "purge" /\ Unlocked
            /\ sweep'.pc = "delete" /\ sweep'.id = sweep.id
            /\ arch' = arch \ {sweep.id} /\ UNCHANGED <<row, dated, live>>
         \/ /\ sweep.pc = "delete" /\ sweep' = Rest
            /\ Sets(row, row', sweep.id, "none") /\ dated' = dated \ {sweep.id}
            /\ UNCHANGED <<live, arch>>
<1>1. CASE Purge
  BY <1>1, SweepType, Zenon DEF Purge, record
<1>2. CASE PurgeEnds
  BY <1>2, SweepType, Zenon DEF PurgeEnds, DeleteRecord, Sets, files
<1>. QED
  BY <1>1, <1>2, Zenon

\* The periodic check deletes a record, or a transcript without one.
LEMMA CheckDoes ==
  ASSUME TypeInv, CheckRecord \/ CheckOrphans
  PROVE  /\ UNCHANGED <<cache, registry, mem, used, reverted, res, saver, sweep, boot>>
         /\ \/ /\ Unlocked /\ check.id \in Ids /\ UNCHANGED <<live, arch>>
               /\ Sets(row, row', check.id, "none") /\ dated' = dated \ {check.id}
               /\ torn' = torn \cup {check.id}
            \/ UNCHANGED <<row, dated, live, arch, torn>>
            \/ /\ UNCHANGED <<row, dated, torn>>
               /\ \E s \in Ids : /\ row[s] = "none"
                                 /\ live' \in {live, live \ {s}}
                                 /\ arch' \in {arch, arch \ {s}}
<1>1. row \in [Ids -> Kept] /\ (check.pc # "idle" => check.id \in Ids)
  BY Zenon DEF TypeInv, DataInv, WorkInv
<1>2. CASE CheckRecord
  BY <1>1, <1>2, Zenon DEF CheckRecord, DeleteRecord, Sets, record, files, memory
<1>3. CASE CheckOrphans
  BY <1>3, Zenon DEF CheckOrphans, record, memory, bounds, counts
<1>. QED
  BY <1>2, <1>3, Zenon

-----------------------------------------------------------------------------
(* Type correctness.                                                         *)

\* The types hold in the initial state.
LEMMA TypeInit == Init => TypeInv
BY StoreAssumption DEF Init, TypeInv, DataInv, CountInv, ResInv, WorkInv,
   Resolves, Froms, Kept, Status, Pcs, Ids, NoId, Rest, Returned

\* Every step keeps the types of the store, ...
LEMMA DataStep == ASSUME TypeInv, [Next]_vars PROVE DataInv'
<1>. USE DEF DataInv, Kept, Status, record, files, memory, bounds, counts
<1>. DataInv /\ CountInv /\ ResInv /\ WorkInv
  BY Zenon DEF TypeInv
<1>1. CASE
     \/ Path1 \/ GivesUp \/ Restore \/ Activate \/ Rebuild \/ QueryActive
     \/ Create \/ Fields \/ Record \/ File
  <2>1. CASE Path1
    BY <2>1, Path1Goes, LoadKept, Zenon DEF Path1, At, ResInv
  <2>2. CASE GivesUp
    BY <2>2, Zenon DEF GivesUp, At, ResInv
  <2>3. CASE Restore
    BY <2>3, RestoreGoes, Zenon DEF Restore, At, ResInv
  <2>4. CASE Activate
    BY <2>4, Zenon DEF Activate, At, ResInv
  <2>5. CASE Rebuild
    BY <2>5, RebuildGoes DEF Rebuild, At, ResInv
  <2>6. CASE QueryActive
    BY <2>6, Zenon DEF QueryActive, At
  <2>7. CASE Create
    BY <2>7, CreateGoes, Zenon DEF Create, At
  <2>8. CASE Fields
    BY <2>8, LoadKept, Zenon DEF Fields, At, Returned, ResInv
  <2>9. CASE Record
    BY <2>9, Zenon DEF Record, At, SaveRecord, ResInv
  <2>10. CASE File
    BY <2>10, Zenon DEF File, At, Returned, ResInv
  <2>. HIDE DEF DataInv
  <2>. QED
    BY <1>1, <2>1, <2>2, <2>3, <2>4, <2>5, <2>6, <2>7, <2>8, <2>9, <2>10, Zenon
<1>2. CASE SaverLoads \/ SaverRecord \/ SaverFile \/ Sweeper
  <2>1. CASE SaverLoads
    BY <2>1, LoadKept DEF SaverLoads
  <2>2. CASE SaverRecord
    BY <2>2, Zenon DEF SaverRecord, SaveRecord, WorkInv
  <2>3. CASE SaverFile
    BY <2>3, Zenon DEF SaverFile, Rest, WorkInv
  <2>4. CASE ArchiveMarks
    BY <2>4 DEF ArchiveMarks, Rest, parties, WorkInv
  <2>5. CASE ArchiveMoves
    BY <2>5, Zenon DEF ArchiveMoves, Rest, parties, WorkInv
  <2>6. CASE ArchiveEnds
    BY <2>6 DEF ArchiveEnds, Rest, parties, WorkInv
  <2>7. CASE Purge
    BY <2>7, Zenon DEF Purge, parties, WorkInv
  <2>8. CASE PurgeEnds
    BY <2>8, Zenon DEF PurgeEnds, DeleteRecord, Rest, parties, WorkInv
  <2>. HIDE DEF DataInv
  <2>. QED
    BY <1>2, <2>1, <2>2, <2>3, <2>4, <2>5, <2>6, <2>7, <2>8, Zenon DEF Sweeper
<1>3. CASE
     \/ Resolve \/ Archived \/ QueryMigrating \/ QueryArchived
     \/ SweepArchives \/ SweepPurges \/ CheckLists \/ CheckRecord
     \/ CheckOrphans \/ Crash \/ Recover \/ RebuildRegistry
     \/ StartupCheck \/ UNCHANGED vars
  <2>1. CASE CheckRecord
    BY <2>1 DEF CheckRecord, DeleteRecord, Rest, WorkInv
  <2>2. CASE CheckOrphans
    BY <2>2, Zenon DEF CheckOrphans
  <2>3. CASE Crash
    BY <2>3, IdFacts DEF Crash, Returned, Rest, ResInv, Resolves, WorkInv
  <2>4. CASE RebuildRegistry
    BY <2>4, Zenon DEF RebuildRegistry, Rest
  <2>5. CASE StartupCheck
    BY <2>5, Zenon DEF StartupCheck
  <2>6. CASE
       \/ Resolve \/ Archived \/ QueryMigrating \/ QueryArchived
       \/ SweepArchives \/ SweepPurges \/ CheckLists \/ Recover
       \/ UNCHANGED vars
    BY <2>6, Zenon DEF Resolve, At, Archived, QueryMigrating, QueryArchived,
       SweepArchives, parties, SweepPurges, CheckLists, Recover, Interrupted,
       vars
  <2>. HIDE DEF DataInv
  <2>. QED
    BY <1>3, <2>1, <2>2, <2>3, <2>4, <2>5, <2>6, Zenon
<1>. HIDE DEF DataInv
<1>. QED
  BY <1>1, <1>2, <1>3, Steps, Zenon

\* ... the bounds, ...
LEMMA CountStep == ASSUME TypeInv, [Next]_vars PROVE CountInv'
<1>. USE StoreAssumption DEF CountInv, bounds, counts
<1>. DataInv /\ CountInv /\ ResInv /\ WorkInv
  BY Zenon DEF TypeInv
<1>1. CASE Resolve \/ Resolver
  <2>1. CASE Resolve
    BY <2>1, ResolveGoes DEF Resolve, At, Moved, ResInv
  <2>2. CASE Path1
    BY <2>2, Path1Goes, Zenon DEF Path1, At, Moved, ResInv
  <2>3. CASE Archived
    BY <2>3, WaitGoes, Zenon DEF Archived, At, Moved, ResInv
  <2>4. CASE GivesUp
    BY <2>4, WaitGoes, Zenon DEF GivesUp, At, Moved, ResInv
  <2>5. CASE Restore
    BY <2>5, RestoreGoes, NotRestoredGoes, Zenon DEF Restore, At, Moved, Stays,
       ResInv
  <2>6. CASE Activate
    BY <2>6, ActivateGoes, NotRestoredGoes, Zenon DEF Activate, At, Moved, Stays,
       ResInv
  <2>7. CASE Rebuild
    BY <2>7, RebuildGoes, Zenon DEF Rebuild, At, Moved, ResInv
  <2>8. CASE QueryActive
    BY <2>8, QueryGoes, Zenon DEF QueryActive, At, Moved, ResInv
  <2>9. CASE QueryMigrating
    BY <2>9, QueryGoes, Zenon DEF QueryMigrating, At, Moved, ResInv
  <2>10. CASE QueryArchived
    BY <2>10, QueryGoes, Zenon DEF QueryArchived, At, Moved, ResInv
  <2>11. CASE Create
    BY <2>11, CreateGoes DEF Create, At, Moved, ResInv
  <2>12. CASE Fields
    BY <2>12, FieldsGoes, ReturnedIdle, Zenon DEF Fields, At, Moved, ResInv
  <2>13. CASE Record
    BY <2>13, MovesOn DEF Record, At, SaveRecord, Stays, ResInv
  <2>14. CASE File
    BY <2>14, ReturnedIdle, Zenon DEF File, At, Moved, ResInv
  <2>. HIDE DEF CountInv
  <2>. QED
    BY <1>1, <2>1, <2>2, <2>3, <2>4, <2>5, <2>6, <2>7, <2>8, <2>9, <2>10,
       <2>11, <2>12, <2>13, <2>14, Zenon DEF Resolver
<1>2. CASE
     \/ SaverLoads \/ SaverRecord \/ SaverFile \/ SweepArchives
     \/ SweepPurges \/ CheckLists \/ CheckRecord \/ CheckOrphans \/ Crash
     \/ Recover \/ RebuildRegistry \/ StartupCheck \/ Sweeper
     \/ UNCHANGED vars
  <2>1. CASE Crash
    <3>1. /\ UNCHANGED <<used, messages>> /\ res' = Returned
          /\ crashes < MaxCrashes /\ crashes' = crashes + 1
      BY <2>1, Zenon DEF Crash
    <3>. QED
      BY <3>1, ReturnedIdle
  <2>2. CASE
       \/ SaverLoads \/ SaverRecord \/ SaverFile \/ SweepArchives
       \/ SweepPurges \/ Sweeper \/ Recover \/ CheckLists \/ CheckRecord
       \/ CheckOrphans \/ RebuildRegistry \/ StartupCheck
       \/ UNCHANGED vars
    BY <2>2, Frames, Zenon DEF vars
  <2>. HIDE DEF CountInv
  <2>. QED
    BY <1>2, <2>1, <2>2, Zenon
<1>. HIDE DEF CountInv
<1>. QED
  BY <1>1, <1>2, Steps, Zenon DEF Resolver

\* ... the types of resolve, ...
LEMMA ResStep == ASSUME TypeInv, [Next]_vars PROVE ResInv'
<1>. USE DEF ResInv, Status, Pcs
<1>. DataInv /\ CountInv /\ ResInv /\ WorkInv
  BY Zenon DEF TypeInv
<1>1. CASE Resolve \/ Resolver
  <2>1. CASE Resolve
    BY <2>1, ResolveDoes, Zenon DEF Moved
  <2>2. CASE Path1
    BY <2>2, Path1Does, Zenon DEF Moved
  <2>3. CASE Restore
    BY <2>3, RestoreDoes, Zenon DEF Moved, Stays
  <2>4. CASE Activate
    BY <2>4, ActivateDoes, Zenon DEF Moved, Stays
  <2>5. CASE Rebuild
    BY <2>5, RebuildDoes, Zenon DEF Moved
  <2>6. CASE Create
    BY <2>6, CreateDoes, Zenon DEF Moved
  <2>7. CASE Fields
    BY <2>7, FieldsDoes, ReturnedIdle, Zenon DEF Moved
  <2>8. CASE Record
    BY <2>8, RecordDoes, Zenon DEF Saved, Stays
  <2>9. CASE File
    BY <2>9, FileDoes, ReturnedIdle, Zenon
  <2>10. CASE Archived \/ GivesUp
    BY <2>10, WaitDoes, Zenon DEF Moved
  <2>11. CASE QueryActive \/ QueryMigrating \/ QueryArchived
    BY <2>11, QueryDoes, Zenon DEF Moved
  <2>. HIDE DEF ResInv
  <2>. QED
    BY <1>1, <2>1, <2>2, <2>3, <2>4, <2>5, <2>6, <2>7, <2>8, <2>9, <2>10,
       <2>11, Zenon DEF Resolver
<1>2. CASE
     \/ SaverLoads \/ SaverRecord \/ SaverFile \/ SweepArchives
     \/ SweepPurges \/ CheckLists \/ CheckRecord \/ CheckOrphans \/ Crash
     \/ Recover \/ RebuildRegistry \/ StartupCheck \/ Sweeper
     \/ UNCHANGED vars
  <2>1. CASE Crash
    BY <2>1, ReturnedIdle, Zenon DEF Crash
  <2>2. CASE
       \/ SaverLoads \/ SaverRecord \/ SaverFile \/ SweepArchives
       \/ SweepPurges \/ Sweeper \/ Recover \/ CheckLists \/ CheckRecord
       \/ CheckOrphans \/ RebuildRegistry \/ StartupCheck
       \/ UNCHANGED vars
    BY <2>2, Frames, Zenon DEF vars
  <2>. HIDE DEF ResInv
  <2>. QED
    BY <1>2, <2>1, <2>2, Zenon
<1>. HIDE DEF ResInv
<1>. QED
  BY <1>1, <1>2, Steps, Zenon DEF Resolver

\* ... and of the other parties.
LEMMA WorkStep == ASSUME TypeInv, [Next]_vars PROVE WorkInv'
<1>. USE IdFacts DEF WorkInv, Kept, Status
<1>. DataInv /\ CountInv /\ ResInv /\ WorkInv
  BY Zenon DEF TypeInv
<1>1. CASE
     \/ SaverLoads \/ SaverRecord \/ SaverFile \/ SweepArchives
     \/ SweepPurges \/ Recover \/ Sweeper
  <2>1. CASE SaverLoads
    BY <2>1, LoadKept DEF SaverLoads, DataInv
  <2>2. CASE SaverRecord
    BY <2>2, Zenon DEF SaverRecord, SaveRecord, DataInv
  <2>3. CASE SaverFile
    BY <2>3, Zenon DEF SaverFile, Rest, DataInv
  <2>4. CASE SweepArchives
    BY <2>4 DEF SweepArchives, parties, DataInv
  <2>5. CASE SweepPurges
    BY <2>5 DEF SweepPurges, parties, DataInv
  <2>6. CASE ArchiveMarks
    BY <2>6 DEF ArchiveMarks, Rest, parties, DataInv
  <2>7. CASE ArchiveMoves
    BY <2>7, Zenon DEF ArchiveMoves, Rest, parties, DataInv
  <2>8. CASE ArchiveEnds
    BY <2>8, Zenon DEF ArchiveEnds, Rest, parties, DataInv
  <2>9. CASE Purge
    BY <2>9 DEF Purge, parties, DataInv
  <2>10. CASE PurgeEnds
    BY <2>10, Zenon DEF PurgeEnds, DeleteRecord, Rest, parties, DataInv
  <2>11. CASE Recover
    BY <2>11 DEF Recover, Interrupted, parties, DataInv
  <2>. HIDE DEF WorkInv
  <2>. QED
    BY <1>1, <2>1, <2>2, <2>3, <2>4, <2>5, <2>6, <2>7, <2>8, <2>9, <2>10,
       <2>11, Zenon DEF Sweeper
<1>2. CASE
     \/ Resolve \/ Resolver \/ CheckLists \/ CheckRecord \/ CheckOrphans
     \/ Crash \/ RebuildRegistry \/ StartupCheck \/ UNCHANGED vars
  <2>1. CASE CheckLists
    BY <2>1 DEF CheckLists, DataInv
  <2>2. CASE CheckRecord
    BY <2>2, Zenon DEF CheckRecord, DeleteRecord, Rest, DataInv
  <2>3. CASE CheckOrphans
    BY <2>3 DEF CheckOrphans, DataInv
  <2>4. CASE Crash
    BY <2>4, Zenon DEF Crash, Returned, Rest, DataInv
  <2>5. CASE RebuildRegistry
    BY <2>5, Zenon DEF RebuildRegistry, Rest, DataInv
  <2>6. CASE StartupCheck
    BY <2>6, Zenon DEF StartupCheck, DataInv
  <2>7. CASE Resolve \/ Resolver \/ UNCHANGED vars
    BY <2>7, Frames, Zenon DEF vars
  <2>. HIDE DEF WorkInv
  <2>. QED
    BY <1>2, <2>1, <2>2, <2>3, <2>4, <2>5, <2>6, <2>7, Zenon
<1>. HIDE DEF WorkInv
<1>. QED
  BY <1>1, <1>2, Steps, Zenon DEF Resolver

\* So the types are an inductive invariant.
LEMMA TypeStep == ASSUME TypeInv, [Next]_vars PROVE TypeInv'
BY DataStep, CountStep, ResStep, WorkStep, Zenon DEF TypeInv

\* Every state has its types, a conversation is in memory only with its
\* session, and only archived records have a value in archived_at.
THEOREM StoreTypes == Spec => []TypeOK
<1>1. TypeInv => TypeOK
  BY Zenon DEF TypeInv, DataInv, CountInv, ResInv, WorkInv, TypeOK, Resolves, Kept
<1>. QED
  BY <1>1, TypeInit, TypeStep, PTL DEF Spec

-----------------------------------------------------------------------------
(* The processes: the start of the daemon, ids, and what is in memory.       *)

\* While the daemon starts no handler runs, and no sweep while it checks.
StartInv ==
  /\ boot # "up" => res.pc = "idle" /\ saver.pc = "idle" /\ check.pc = "idle"
                   /\ mem = {}
  /\ boot = "check" /\ ~SlowArchive => sweep.pc = "idle"

Given == 1 .. used

\* Only ids that were generated are in use.
FreshInv ==
  /\ \A s \in Ids : row[s] # "none" => s \in Given
  /\ {res.id, saver.id, registry} \subseteq Given \cup {NoId}
  /\ mem \subseteq Given

\* The places of resolve at which the session it works on is registered.
Settled == {"idle", "path1", "fields", "record", "file"}

\* A session in memory is the registered one, and resolve is not looking for
\* another, or the cache says that it is migrating or archived.  So while
\* resolve looks for a session no handler can be about to save one as active.
MemoryInv ==
  /\ \A s \in mem : (s = registry /\ res.pc \in Settled)
                    \/ cache[s] \in {"migrating", "archived"}
  /\ res.pc = "path1" \/ (res.pc = "wait" /\ res.st = "path2") =>
       registry = res.id /\ res.id \in mem
  /\ res.pc \in {"fields", "record", "file"} => registry = res.id
  /\ res.pc = "record" /\ cache[res.id] \in {"none", "active"} => res.st = "active"
  /\ saver.pc = "record" /\ saver.st = "active" =>
       /\ saver.id \in mem /\ cache[saver.id] = "active"
       /\ res.pc = "record" => res.st = "active"

\* Every step keeps the order of the start and of the locks.
LEMMA StartStep == ASSUME TypeInv, StartInv, [Next]_vars PROVE StartInv'
<1>. USE DEF StartInv
<1>1. CASE
     \/ SaverLoads \/ SaverRecord \/ SaverFile \/ SweepArchives
     \/ SweepPurges \/ Recover \/ Sweeper
  <2>1. CASE SaverLoads
    BY <2>1, Zenon DEF SaverLoads
  <2>2. CASE SaverRecord
    BY <2>2, Zenon DEF SaverRecord
  <2>3. CASE SaverFile
    BY <2>3, Zenon DEF SaverFile, Rest
  <2>4. CASE SweepArchives \/ SweepPurges \/ Sweeper \/ Recover
    <3>1. UNCHANGED <<mem, res, saver, check, boot>>
      BY <2>4, Frames, Zenon DEF memory
    <3>2. boot = "check" /\ ~SlowArchive => UNCHANGED sweep
      BY <2>4, Zenon DEF SweepArchives, SweepPurges, Sweeper, ArchiveMarks, ArchiveMoves,
         ArchiveEnds, Purge, PurgeEnds, Recover
    <3>. QED
      BY <3>1, <3>2, Zenon
  <2>. HIDE DEF StartInv
  <2>. QED
    BY <1>1, <2>1, <2>2, <2>3, <2>4, Zenon
<1>2. CASE
     \/ Resolve \/ Resolver \/ CheckLists \/ CheckRecord \/ CheckOrphans
     \/ Crash \/ RebuildRegistry \/ StartupCheck \/ UNCHANGED vars
  <2>1. CASE CheckLists
    BY <2>1, Zenon DEF CheckLists, memory
  <2>2. CASE CheckRecord
    BY <2>2, Zenon DEF CheckRecord, Rest, memory
  <2>3. CASE CheckOrphans
    BY <2>3, Zenon DEF CheckOrphans, memory
  <2>4. CASE Crash
    BY <2>4, ReturnedIdle, Zenon DEF Crash, Rest
  <2>5. CASE RebuildRegistry
    BY <2>5, Zenon DEF RebuildRegistry, Rest
  <2>6. CASE StartupCheck
    BY <2>6, Zenon DEF StartupCheck, memory
  <2>7. CASE Resolve \/ Resolver \/ UNCHANGED vars
    BY <2>7, Frames, Zenon DEF vars, memory
  <2>. HIDE DEF StartInv
  <2>. QED
    BY <1>2, <2>1, <2>2, <2>3, <2>4, <2>5, <2>6, <2>7, Zenon
<1>. HIDE DEF StartInv
<1>. QED
  BY <1>1, <1>2, Steps, Zenon DEF Resolver

\* Every step uses only ids that were generated.
LEMMA FreshStep == ASSUME TypeInv, FreshInv, [Next]_vars PROVE FreshInv'
<1>. USE DEF FreshInv
<1>. DataInv /\ CountInv /\ ResInv /\ WorkInv
  BY Zenon DEF TypeInv
<1>a. NoId \notin Ids
  BY IdFacts, Zenon
<1>b. /\ UNCHANGED used => UNCHANGED Given
      /\ used' = used + 1 => Given' = Given \cup {used'}
  BY DEF CountInv, Given
<1>1. CASE Resolve \/ Resolver
  <2>1. CASE Resolve
    BY <2>1, <1>b, ResolveDoes, Zenon DEF Moved
  <2>2. CASE Path1
    BY <2>2, <1>b, Path1Does, Zenon DEF Moved
  <2>3. CASE Restore
    BY <2>3, <1>b, RestoreDoes, Zenon DEF Moved, Stays
  <2>4. CASE Activate
    BY <2>4, <1>a, <1>b, ActivateDoes DEF Moved, Stays, Sets
  <2>5. CASE Rebuild
    BY <2>5, <1>a, <1>b, RebuildDoes, Zenon DEF Moved
  <2>6. CASE Create
    BY <2>6, <1>a, <1>b, CreateDoes, Zenon DEF Moved
  <2>7. CASE Fields
    BY <2>7, <1>b, FieldsDoes, ReturnedIdle, Zenon DEF Moved
  <2>8. CASE Record
    BY <2>8, <1>a, <1>b, RecordDoes DEF Stays, Saved, Sets
  <2>9. CASE File
    BY <2>9, <1>b, FileDoes, ReturnedIdle, Zenon
  <2>10. CASE Archived \/ GivesUp
    BY <2>10, <1>b, WaitDoes, Zenon DEF Moved
  <2>11. CASE QueryActive \/ QueryMigrating \/ QueryArchived
    BY <2>11, <1>a, <1>b, QueryDoes, Zenon DEF Moved
  <2>. HIDE DEF FreshInv
  <2>. QED
    BY <1>1, <2>1, <2>2, <2>3, <2>4, <2>5, <2>6, <2>7, <2>8, <2>9, <2>10,
       <2>11, Zenon DEF Resolver
<1>2. CASE SaverLoads \/ SaverRecord \/ SaverFile
  <2>1. CASE SaverLoads
    BY <2>1, <1>b, SaverLoadsDoes, Zenon
  <2>2. CASE SaverRecord
    BY <2>2, <1>a, <1>b, SaverDoes DEF Saved, Sets
  <2>3. CASE SaverFile
    BY <2>3, <1>b, SaverDoes DEF Rest
  <2>. HIDE DEF FreshInv
  <2>. QED
    BY <1>2, <2>1, <2>2, <2>3, Zenon
<1>3. CASE
     \/ SweepArchives \/ SweepPurges \/ CheckLists \/ CheckRecord
     \/ CheckOrphans \/ Crash \/ Recover \/ RebuildRegistry
     \/ StartupCheck \/ Sweeper \/ UNCHANGED vars
  <2>1. CASE Crash
    BY <2>1, <1>b, ReturnedIdle, Zenon DEF Crash, Rest, record
  <2>2. CASE RebuildRegistry
    BY <2>2, <1>b, Zenon DEF RebuildRegistry, Rest, DataInv, record, bounds, counts
  <2>3. CASE
       \/ SweepArchives \/ SweepPurges \/ Recover \/ ArchiveMoves \/ Purge
       \/ CheckLists \/ CheckOrphans \/ UNCHANGED vars
    <3>. UNCHANGED <<row, registry, mem, used, res, saver>>
      BY <2>3, Frames, Zenon DEF SweepArchives, SweepPurges, Recover, Sweeper, ArchiveMoves,
         Purge, CheckLists, CheckOrphans, record, memory, bounds, counts, vars
    <3>. QED
      BY <1>b, Zenon
  <2>4. CASE
       \/ ArchiveMarks \/ ArchiveEnds \/ PurgeEnds \/ CheckRecord
       \/ StartupCheck
    <3>1. UNCHANGED <<registry, mem, used, res, saver>>
      BY <2>4, Frames, Zenon DEF Sweeper, StartupCheck, memory, bounds, counts
    <3>. QED
      BY <2>4, <1>b, <3>1, RowsForward, Zenon
  <2>. HIDE DEF FreshInv
  <2>. QED
    BY <1>3, <2>1, <2>2, <2>3, <2>4, Zenon DEF Sweeper
<1>. HIDE DEF FreshInv
<1>. QED
  BY <1>1, <1>2, <1>3, Steps, Zenon DEF Resolver

\* Every step keeps what is said of the sessions in memory.
LEMMA MemoryStep ==
  ASSUME TypeInv, StartInv, MemoryInv, [Next]_vars PROVE MemoryInv'
<1>. USE DEF MemoryInv, Settled
<1>a. mem \subseteq Ids /\ NoId \notin mem
  BY IdFacts, Zenon DEF TypeInv, DataInv
<1>b. res.pc \in {"path1", "wait", "fields", "record", "file"} => res.id \in Ids
  BY Zenon DEF TypeInv, ResInv
<1>1. CASE Resolve \/ Resolver
  <2>1. CASE Resolve
    BY <2>1, <1>a, ResolveDoes, Zenon DEF Moved
  <2>2. CASE Path1
    BY <2>2, <1>a, Path1Does, Zenon DEF Moved, Sets, load, Status
  <2>3. CASE Restore
    BY <2>3, <1>a, RestoreDoes, Zenon DEF Moved, Stays
  <2>4. CASE Activate
    BY <2>4, <1>a, ActivateDoes, Zenon DEF Moved, Stays
  <2>5. CASE Rebuild
    BY <2>5, <1>a, RebuildDoes, Zenon DEF Moved, Sets, Status
  <2>6. CASE Create
    BY <2>6, CreateDoes, Zenon DEF Moved
  <2>7. CASE Fields
    BY <2>7, <1>a, FieldsDoes, ReturnedIdle DEF Moved, Sets, load, Status
  <2>8. CASE Record
    BY <2>8, <1>a, RecordDoes, Zenon DEF Stays, Saved, Sets, Status
  <2>9. CASE File
    BY <2>9, FileDoes, ReturnedIdle, Zenon
  <2>10. CASE Archived \/ GivesUp
    BY <2>10, WaitDoes, Zenon DEF Moved
  <2>11. CASE QueryActive \/ QueryMigrating \/ QueryArchived
    BY <2>11, <1>a, QueryDoes, Zenon DEF Moved
  <2>. HIDE DEF MemoryInv
  <2>. QED
    BY <1>1, <2>1, <2>2, <2>3, <2>4, <2>5, <2>6, <2>7, <2>8, <2>9, <2>10,
       <2>11, Zenon DEF Resolver
<1>2. CASE SaverLoads \/ SaverRecord \/ SaverFile
  <2>1. CASE SaverLoads
    BY <2>1, <1>a, <1>b, SaverLoadsDoes DEF Sets, load, Status
  <2>2. CASE SaverRecord
    BY <2>2, <1>a, <1>b, SaverDoes, Zenon DEF Saved, Sets, Status
  <2>3. CASE SaverFile
    BY <2>3, SaverDoes DEF Rest
  <2>. HIDE DEF MemoryInv
  <2>. QED
    BY <1>2, <2>1, <2>2, <2>3, Zenon
<1>3. CASE
     \/ SweepArchives \/ SweepPurges \/ CheckLists \/ CheckRecord
     \/ CheckOrphans \/ Crash \/ Recover \/ RebuildRegistry
     \/ StartupCheck \/ Sweeper \/ UNCHANGED vars
  <2>1. CASE Crash
    BY <2>1, ReturnedIdle, Zenon DEF Crash, Rest
  <2>2. CASE RebuildRegistry \/ StartupCheck
    BY <2>2, Frames, Zenon DEF StartInv, RebuildRegistry, StartupCheck
  <2>3. CASE
       \/ SweepArchives \/ SweepPurges \/ Sweeper \/ Recover \/ CheckLists
       \/ CheckRecord \/ CheckOrphans \/ UNCHANGED vars
    BY <2>3, Frames, Zenon DEF vars, memory
  <2>. HIDE DEF MemoryInv
  <2>. QED
    BY <1>3, <2>1, <2>2, <2>3, Zenon
<1>. HIDE DEF MemoryInv
<1>. QED
  BY <1>1, <1>2, <1>3, Steps, Zenon DEF Resolver

-----------------------------------------------------------------------------
(* What a record's status says about the archive and the restore of its      *)
(* session, as long as no late save has put the status back.                 *)

\* First, a registered session that the cache has as migrating is not active,
\* unless resolve is about to save it.  Second, a session whose archive was
\* waited for is not active, so that no new archive of it begins; a restore
\* after the wait was given up does not meet its archive.  Third, an archive
\* under way is not of an archived record.  Fourth, a restore that has moved
\* the transcript finds it there with its record: it holds the lock that a
\* purge needs, and no archive is about to move the transcript away.
StatusInv ==
  /\ /\ registry \in mem \ reverted /\ cache[registry] = "migrating"
     /\ \/ res.pc \in {"idle", "path1", "file"}
        \/ res.pc = "wait" /\ res.st = "path2"
        \/ res.pc = "record" /\ res.st # "migrating"
     => row[registry] # "active"
  /\ /\ res.id \notin reverted
     /\ \/ res.pc = "wait"
        \/ res.pc \in {"restore", "activate"} /\ res.st \in {"timeout2", "timeout3"}
     => /\ row[res.id] # "active"
        /\ res.pc # "wait" => sweep.id # res.id
  /\ sweep.pc \in {"move", "archive"} /\ sweep.id \notin reverted =>
       row[sweep.id] # "archived"
  /\ res.pc = "activate" => row[res.id] # "none" /\ sweep.pc # "delete"
  /\ res.pc = "activate" /\ res.id \notin reverted =>
       /\ res.id \in arch => res.id \in live
       /\ sweep.pc \in {"move", "archive"} => sweep.id # res.id

\* Every step keeps what is said of the statuses.
LEMMA StatusStep ==
  ASSUME TypeInv, StartInv, FreshInv, MemoryInv, StatusInv, ~SlowArchive, [Next]_vars
  PROVE  StatusInv'
<1>. USE DEF StatusInv
<1>a. NoId \notin Ids /\ mem \subseteq Ids
  BY IdFacts, Zenon DEF TypeInv, DataInv
<1>b. /\ res.pc \in {"path1", "wait", "restore", "activate", "rebuild", "fields", "record",
                   "file"} => res.id \in Ids
      /\ sweep.pc # "idle" <=> sweep.id \in Ids
  BY Zenon DEF TypeInv, ResInv, WorkInv
<1>s. ArchiveMarks \/ ArchiveMoves \/ ArchiveEnds \/ Purge \/ PurgeEnds => Sweeper
  BY Zenon DEF Sweeper
<1>1. CASE Resolve \/ Resolver
  <2>1. CASE Resolve
    BY <2>1, ResolveDoes, Zenon DEF Moved
  <2>2. CASE Path1
    <3>1. res.id \in mem /\ res.id = registry
      BY <2>2, Path1Does, Zenon DEF MemoryInv
    <3>. QED
      BY <2>2, <1>a, <3>1, Path1Does, Zenon DEF Moved, Sets, load
  <2>3. CASE Restore
    BY <2>3, <1>b, RestoreDoes, Zenon DEF Moved, Stays
  <2>4. CASE Activate
    BY <2>4, <1>b, ActivateDoes, Zenon DEF Moved, Stays, Sets
  <2>5. CASE Rebuild
    BY <2>5, <1>a, RebuildDoes, Zenon DEF Moved, Sets
  <2>6. CASE Create
    <3>1. used' = used + 1 /\ used' \in Ids
      BY <2>6, CreateDoes, Zenon
    <3>2. row[used'] = "none"
      BY <3>1 DEF FreshInv, Given, TypeInv, CountInv
    <3>. QED
      BY <2>6, <3>2, CreateDoes, Zenon DEF Moved
  <2>7. CASE Fields
    BY <2>7, <1>a, FieldsDoes, ReturnedIdle, SMTT(20) DEF Moved, Sets, load, MemoryInv
  <2>8. CASE Record
    BY <2>8, <1>a, <1>b, RecordDoes, SMTT(20) DEF Stays, Saved, Sets, MemoryInv, Status
  <2>9. CASE File
    BY <2>9, <1>b, FileDoes, ReturnedIdle, Zenon
  <2>10. CASE Archived \/ GivesUp
    BY <2>10, <1>b, WaitDoes, Zenon DEF Moved
  <2>11. CASE QueryActive \/ QueryMigrating \/ QueryArchived
    BY <2>11, QueryDoes, Zenon DEF Moved
  <2>. HIDE DEF StatusInv
  <2>. QED
    BY <1>1, <2>1, <2>2, <2>3, <2>4, <2>5, <2>6, <2>7, <2>8, <2>9, <2>10,
       <2>11, Zenon DEF Resolver
<1>2. CASE
     \/ SaverLoads \/ SaverRecord \/ SaverFile \/ SweepArchives
     \/ SweepPurges \/ Recover \/ Sweeper
  <2>1. CASE SaverLoads
    BY <2>1, <1>a, <1>b, SaverLoadsDoes, SMTT(20) DEF Sets, load, MemoryInv, Settled, Status
  <2>2. CASE SaverRecord
    BY <2>2, <1>a, <1>b, SaverDoes, SMTT(20) DEF Saved, Sets, MemoryInv, Settled, Status
  <2>3. CASE SaverFile
    BY <2>3, <1>b, SaverDoes, Zenon DEF Rest
  <2>4. CASE ArchiveMarks
    BY <2>4, <1>s, <1>a, <1>b, SweepType, MarkDoes DEF Sets, Rest, Unlocked
  <2>5. CASE ArchiveMoves
    BY <2>5, <1>s, <1>a, <1>b, SweepType, MoveDoes DEF Rest
  <2>6. CASE ArchiveEnds
    BY <2>6, <1>s, <1>a, <1>b, SweepType, EndDoes DEF Sets, Rest, Unlocked
  <2>7. CASE SweepArchives \/ SweepPurges \/ Recover
    BY <2>7, <1>a, <1>b, SweepBegins, Zenon DEF StartInv
  <2>8. CASE Purge \/ PurgeEnds
    BY <2>8, <1>s, <1>a, <1>b, SweepType, PurgeDoes DEF Sets, Rest, Unlocked
  <2>. HIDE DEF StatusInv
  <2>. QED
    BY <1>2, <2>1, <2>2, <2>3, <2>4, <2>5, <2>6, <2>7, <2>8, Zenon DEF Sweeper
<1>3. CASE
     \/ CheckLists \/ CheckRecord \/ CheckOrphans \/ Crash
     \/ RebuildRegistry \/ StartupCheck \/ UNCHANGED vars
  <2>1. CASE Crash
    BY <2>1, ReturnedIdle, <1>a, Zenon DEF Crash, Rest
  <2>2. CASE RebuildRegistry
    BY <2>2, <1>a, Zenon DEF RebuildRegistry, Rest, StartInv, record, files, bounds,
       counts
  <2>3. CASE StartupCheck
    BY <2>3, Zenon DEF StartupCheck, StartInv, memory
  <2>4. CASE CheckRecord \/ CheckOrphans
    BY <2>4, <1>a, <1>b, CheckDoes, Zenon DEF Sets, Unlocked
  <2>5. CASE CheckLists \/ UNCHANGED vars
    BY <2>5, Zenon DEF CheckLists, vars, record, files, memory, bounds, counts
  <2>. HIDE DEF StatusInv
  <2>. QED
    BY <1>3, <2>1, <2>2, <2>3, <2>4, <2>5, Zenon
<1>. HIDE DEF StatusInv
<1>. QED
  BY <1>1, <1>2, <1>3, Steps, Zenon DEF Resolver

-----------------------------------------------------------------------------
(* The transcripts.                                                          *)

\* The sessions that were not being worked on at a crash, and whose record the
\* periodic check has not deleted nor a late save put back.
Clean == Ids \ (torn \cup reverted)

\* An archive about to end has its transcript, and a record.  The transcript
\* of an active record is not only among the archives, unless a save is about
\* to write it or an archive about to end.  That of an archived record is
\* there, unless a restore or a purge has just taken it away.
FileInv ==
  /\ sweep.pc = "archive" /\ sweep.id \in Clean => sweep.id \in arch
  /\ sweep.pc \in {"mark", "move", "archive"} /\ sweep.id \in Clean =>
       row[sweep.id] # "none"
  /\ \A s \in Clean : row[s] = "active" /\ s \in arch /\ s \notin live =>
       \/ res.pc = "file" /\ res.id = s
       \/ saver.pc = "file" /\ saver.id = s
       \/ sweep.pc = "archive" /\ sweep.id = s
  /\ \A s \in Clean : row[s] = "archived" /\ s \in dated /\ s \notin arch =>
       \/ res.pc = "activate" /\ res.id = s
       \/ sweep.pc = "delete" /\ sweep.id = s

\* Every step keeps what is said of the transcripts.
LEMMA FileStep ==
  ASSUME TypeInv, StartInv, StatusInv, FileInv, ~SlowArchive, [Next]_vars
  PROVE  FileInv'
<1>. USE DEF FileInv, Clean
<1>a. /\ NoId \notin Ids
      /\ sweep.pc # "idle" <=> sweep.id \in Ids
  BY IdFacts, Zenon DEF TypeInv, WorkInv
<1>s. ArchiveMarks \/ ArchiveMoves \/ ArchiveEnds \/ Purge \/ PurgeEnds => Sweeper
  BY Zenon DEF Sweeper
<1>1. CASE Resolve \/ Resolver
  <2>1. CASE Resolve
    BY <2>1, ResolveDoes, Zenon DEF Moved
  <2>2. CASE Path1
    BY <2>2, Path1Does, Zenon DEF Moved
  <2>3. CASE Restore
    BY <2>3, RestoreDoes, Zenon DEF Moved, Stays, StatusInv
  <2>4. CASE Activate
    BY <2>4, ActivateDoes, SMTT(20) DEF Moved, Stays, Sets, StatusInv
  <2>5. CASE Rebuild
    BY <2>5, RebuildDoes, Zenon DEF Moved
  <2>6. CASE Create
    BY <2>6, CreateDoes, Zenon DEF Moved
  <2>7. CASE Fields
    BY <2>7, FieldsDoes, ReturnedIdle, Zenon DEF Moved
  <2>8. CASE Record
    BY <2>8, RecordDoes DEF Stays, Saved, Sets
  <2>9. CASE File
    BY <2>9, FileDoes, ReturnedIdle, Zenon
  <2>10. CASE Archived \/ GivesUp
    BY <2>10, WaitDoes, Zenon DEF Moved
  <2>11. CASE QueryActive \/ QueryMigrating \/ QueryArchived
    BY <2>11, QueryDoes, Zenon DEF Moved
  <2>. HIDE DEF FileInv
  <2>. QED
    BY <1>1, <2>1, <2>2, <2>3, <2>4, <2>5, <2>6, <2>7, <2>8, <2>9, <2>10,
       <2>11, Zenon DEF Resolver
<1>2. CASE
     \/ SaverLoads \/ SaverRecord \/ SaverFile \/ SweepArchives
     \/ SweepPurges \/ Recover \/ Sweeper
  <2>1. CASE SaverLoads
    BY <2>1, SaverLoadsDoes, Zenon
  <2>2. CASE SaverRecord
    BY <2>2, SaverDoes DEF Saved, Sets
  <2>3. CASE SaverFile
    BY <2>3, SaverDoes, Zenon DEF Rest
  <2>4. CASE ArchiveMarks
    BY <2>4, <1>s, <1>a, SweepType, MarkDoes DEF Sets, Rest
  <2>5. CASE ArchiveMoves
    BY <2>5, <1>s, <1>a, SweepType, MoveDoes DEF Rest, StatusInv
  <2>6. CASE ArchiveEnds
    BY <2>6, <1>s, <1>a, SweepType, EndDoes DEF Sets, Rest, Unlocked
  <2>7. CASE SweepArchives \/ SweepPurges \/ Recover
    BY <2>7, <1>a, SweepBegins, Zenon
  <2>8. CASE Purge \/ PurgeEnds
    BY <2>8, <1>s, <1>a, SweepType, PurgeDoes DEF Sets, Rest, Unlocked
  <2>. HIDE DEF FileInv
  <2>. QED
    BY <1>2, <2>1, <2>2, <2>3, <2>4, <2>5, <2>6, <2>7, <2>8, Zenon DEF Sweeper
<1>3. CASE
     \/ CheckLists \/ CheckRecord \/ CheckOrphans \/ Crash
     \/ RebuildRegistry \/ StartupCheck \/ UNCHANGED vars
  <2>1. CASE Crash
    BY <2>1, ReturnedIdle, IdFacts, Zenon DEF Crash, Rest, TypeInv, ResInv, Resolves,
       WorkInv, record, files
  <2>2. CASE RebuildRegistry
    BY <2>2, <1>a, Zenon DEF RebuildRegistry, Rest, StartInv, record, files, bounds,
       counts
  <2>3. CASE StartupCheck
    BY <2>3, Zenon DEF StartupCheck, StartInv, bounds, counts
  <2>4. CASE CheckRecord \/ CheckOrphans
    BY <2>4, <1>a, CheckDoes DEF Sets, TypeInv, DataInv
  <2>5. CASE CheckLists \/ UNCHANGED vars
    BY <2>5, Zenon DEF CheckLists, vars, record, files, bounds, counts
  <2>. HIDE DEF FileInv
  <2>. QED
    BY <1>3, <2>1, <2>2, <2>3, <2>4, <2>5, Zenon
<1>. HIDE DEF FileInv
<1>. QED
  BY <1>1, <1>2, <1>3, Steps, Zenon DEF Resolver

\* A check at the start takes a transcript away only from a session without
\* record, or from one that is not clean.
LEMMA CheckKeepsHistory ==
  ASSUME TypeInv, StartInv, FileInv, ~SlowArchive, [Next]_vars, boot = "check",
         NEW s \in (live \cup arch) \ (live' \cup arch')
  PROVE  row[s] = "none" \/ s \in torn \cup reverted
<1>. DataInv /\ CountInv /\ ResInv /\ WorkInv
  BY Zenon DEF TypeInv
<1>1. s \in Ids
  BY Zenon DEF DataInv
<1>2. ~Resolve /\ ~Resolver /\ ~SaverRecord /\ ~SaverFile /\ ~Sweeper
  BY Zenon DEF StartInv, Resolve, Resolver, Path1, Archived, GivesUp, Restore,
     Activate, Rebuild, QueryActive, QueryMigrating, QueryArchived, Create,
     Fields, Record, File, At, SaverRecord, SaverFile, Sweeper, ArchiveMarks,
     ArchiveMoves, ArchiveEnds, Purge, PurgeEnds
<1>3. StartupCheck
  BY <1>2, Zenon DEF Next, Start, SaverLoads, SweepArchives, SweepPurges, CheckLists,
     CheckRecord, CheckOrphans, Crash, Recover, RebuildRegistry, StartInv, files,
     vars, memory
<1>4. row[s] # "none" => ~Loads(s) /\ (row[s] = "archived" => s \in dated)
  BY <1>1, <1>3, Zenon DEF StartupCheck
<1>5. CASE row[s] = "active"
  BY <1>1, <1>4, <1>5, Zenon DEF Loads, HasTranscript, FileInv, StartInv, Clean
<1>6. CASE row[s] = "archived"
  BY <1>1, <1>4, <1>6, Zenon DEF Loads, HasTranscript, FileInv, StartInv, Clean
<1>7. CASE row[s] = "migrating"
  BY <1>1, <1>4, <1>7, Zenon DEF Loads, HasTranscript
<1>. QED
  BY <1>1, <1>5, <1>6, <1>7, Zenon DEF DataInv, Kept, Status

-----------------------------------------------------------------------------
(* The second session.                                                       *)

\* As long as there is one session, and it could be loaded at every moment
\* since the message arrived, what the queries of path 3 have ruled out stays
\* ruled out, and resolve does not come to the point of creating another.
SecondInv ==
  used <= 1 /\ reverted = {} /\ ~res.vacant =>
    /\ res.pc # "idle" => used = 1
    /\ res.pc = "migrating" \/ (res.pc = "wait" /\ res.st = "path3") =>
         \A s \in Ids : row[s] # "active"
    /\ res.pc = "archived" \/ (res.pc \in {"restore", "activate"} /\ res.st = "archived") =>
         \A s \in Ids : row[s] \in {"archived", "none"}
    /\ res.pc # "create"

\* Every step keeps what the queries have ruled out.
LEMMA SecondStep ==
  ASSUME TypeInv, StartInv, FreshInv, MemoryInv, StatusInv, SecondInv,
         ~SlowArchive, [Next]_vars
  PROVE  SecondInv'

<1>. SUFFICES ASSUME used' <= 1, reverted' = {}, ~res'.vacant PROVE SecondInv'
  BY Zenon DEF SecondInv
<1>a. used <= 1 =>
        /\ \A s, t \in Ids : row[s] # "none" /\ row[t] # "none" => s = t
        /\ res.id \in Ids => \A s \in Ids : Loads(s) => s = res.id
  BY IdFacts DEF FreshInv, Given, TypeInv, CountInv, Loads
<1>b. /\ \A s \in Ids : Loads(s) => row[s] # "none"
      /\ \A s \in Ids : row[s] \in Kept
      /\ used <= 1 /\ (\E s \in Ids : Loads(s)) => used = 1
  BY DEF FreshInv, Given, TypeInv, DataInv, CountInv, Loads
<1>1. CASE Resolve \/ Resolver
  <2>1. CASE Resolve
    BY <2>1, <1>b, ResolveDoes, Zenon DEF Moved, SecondInv
  <2>2. CASE Path1
    BY <2>2, <1>b, Path1Does, Zenon DEF Moved, SecondInv
  <2>3. CASE Restore
    <3>1. CASE Stays("activate")
      BY <2>3, <3>1, RestoreDoes, Zenon DEF Stays, SecondInv
    <3>2. CASE ~Stays("activate")
      <4>1. PICK t \in Ids : Loads(t)
        BY <2>3, <3>2, RestoreDoes, Zenon DEF Moved
      <4>2. t = res.id /\ row[t] \in Status
        BY <2>3, <1>a, <1>b, <4>1, RestoreDoes, Zenon DEF Kept
      <4>. QED
        BY <2>3, <3>2, <4>1, <4>2, RestoreDoes, Zenon DEF Moved, SecondInv, StatusInv, Status
    <3>. QED
      BY <3>1, <3>2, Zenon
  <2>4. CASE Activate
    <3>1. CASE Stays("rebuild")
      BY <2>4, <3>1, ActivateDoes, Zenon DEF Stays, SecondInv
    <3>2. CASE ~Stays("rebuild")
      <4>1. PICK t \in Ids : Loads(t)
        BY <2>4, <3>2, ActivateDoes, Zenon DEF Moved
      <4>2. FALSE
        BY <2>4, <1>a, <1>b, <3>2, <4>1, ActivateDoes, Zenon
        DEF StatusInv, Loads, HasTranscript, Kept, Status
      <4>. QED
        BY <4>2, Zenon
    <3>. QED
      BY <3>1, <3>2, Zenon
  <2>5. CASE Rebuild
    BY <2>5, <1>b, RebuildDoes, Zenon DEF Moved, SecondInv
  <2>6. CASE Create
    <3>1. ~res.vacant /\ used <= 1 /\ UNCHANGED reverted /\ res.pc = "create"
      BY <2>6, CreateDoes DEF Moved, TypeInv, CountInv
    <3>. QED
      BY <3>1, Zenon DEF SecondInv
  <2>7. CASE Fields
    BY <2>7, <1>b, FieldsDoes, ReturnedIdle, Zenon DEF Moved, SecondInv
  <2>8. CASE Record
    BY <2>8, RecordDoes, Zenon DEF Stays, Saved, Sets, SecondInv
  <2>9. CASE File
    BY <2>9, FileDoes, ReturnedIdle, Zenon DEF SecondInv
  <2>10. CASE Archived \/ GivesUp
    BY <2>10, <1>a, <1>b, WaitDoes, Zenon DEF Moved, SecondInv, Loads
  <2>11. CASE QueryActive \/ QueryMigrating \/ QueryArchived
    BY <2>11, <1>b, QueryDoes, Zenon DEF Moved, Kept, Status, SecondInv
  <2>. QED
    BY <1>1, <2>1, <2>2, <2>3, <2>4, <2>5, <2>6, <2>7, <2>8, <2>9, <2>10,
       <2>11, Zenon DEF Resolver
<1>2. CASE SaverRecord
  BY <1>2, SaverDoes, Zenon DEF Saved, Sets, MemoryInv, Settled, Status, SecondInv
<1>3. CASE
     \/ SaverLoads \/ SaverFile \/ SweepArchives \/ SweepPurges
     \/ CheckLists \/ CheckRecord \/ CheckOrphans \/ Crash \/ Recover
     \/ RebuildRegistry \/ StartupCheck \/ Sweeper \/ UNCHANGED vars
  <2>1. CASE Crash
    BY <2>1, ReturnedIdle, Zenon DEF Crash, Rest, record, SecondInv
  <2>2. CASE
       \/ SaverLoads \/ SaverFile \/ SweepArchives \/ SweepPurges
       \/ ArchiveMoves \/ Purge \/ CheckLists \/ CheckOrphans \/ Recover
       \/ RebuildRegistry \/ UNCHANGED vars
    <3>. UNCHANGED <<row, used, res, reverted>>
      BY <2>2, Frames, Zenon DEF SaverLoads, SaverFile, SweepArchives, SweepPurges, Sweeper,
         ArchiveMoves, Purge, CheckLists, CheckOrphans, Recover, RebuildRegistry,
         record, bounds, counts, vars
    <3>. QED
      BY Zenon DEF SecondInv
  <2>3. CASE
       \/ ArchiveMarks \/ ArchiveEnds \/ PurgeEnds \/ CheckRecord
       \/ StartupCheck
    <3>1. UNCHANGED <<used, res, reverted>>
      BY <2>3, Frames, Zenon DEF Sweeper, bounds, counts
    <3>. QED
      BY <2>3, <3>1, RowsForward, Zenon DEF SecondInv
  <2>. QED
    BY <1>3, <2>1, <2>2, <2>3, Zenon DEF Sweeper
<1>. QED
  BY <1>1, <1>2, <1>3, Steps, Zenon DEF Resolver

\* An id is generated only at that point.
LEMMA SecondSession ==
  ASSUME TypeInv, FreshInv, SecondInv, MaxSessions <= 2, [Next]_vars, used' # used
  PROVE  res.vacant \/ reverted # {}
<1>1. Create
  <2>1. Resolver \/ Resolve
    BY Frames, Zenon DEF Next, Start, Crash, vars, bounds, counts
  <2>. QED
    BY <2>1, Zenon DEF Resolve, Resolver, Path1, Archived, GivesUp, Restore, Activate,
       Rebuild, QueryActive, QueryMigrating, QueryArchived, Fields, Record, File,
       bounds, counts
<1>2. res.pc = "create" /\ used <= 1
  BY <1>1, StoreAssumption DEF Create, At, TypeInv, CountInv
<1>. QED
  BY <1>2, Zenon DEF SecondInv

-----------------------------------------------------------------------------
(* The theorems.                                                             *)

SafeInv == /\ TypeInv /\ StartInv /\ FreshInv /\ MemoryInv
           /\ StatusInv /\ FileInv /\ SecondInv

\* The invariants hold initially.
LEMMA SafeInit == Init => SafeInv
<1>. SUFFICES ASSUME Init PROVE SafeInv
  OBVIOUS
<1>1. TypeInv
  BY TypeInit, Zenon
<1>2. StartInv /\ FreshInv /\ MemoryInv
  BY Zenon DEF Init, Returned, Rest, StartInv, FreshInv, MemoryInv, Given, Settled, Ids, NoId
<1>3. StatusInv /\ FileInv /\ SecondInv
  BY Zenon DEF Init, Returned, Rest, StatusInv, FileInv, SecondInv, Clean
<1>. QED
  BY <1>1, <1>2, <1>3, Zenon DEF SafeInv

\* Together the invariants are inductive.
LEMMA SafeStep == ASSUME ~SlowArchive, SafeInv, [Next]_vars PROVE SafeInv'
BY TypeStep, StartStep, FreshStep, MemoryStep, StatusStep, FileStep, SecondStep, Zenon
DEF SafeInv

\* When archives end within the time they are waited for, the consistency
\* check of a restart deletes no transcript of a session with a record, except
\* of sessions that were being worked on at a crash, whose record the periodic
\* check had deleted, or whose status a late save had put back.
THEOREM RestartKeepsHistory ==
  ASSUME ~SlowArchive PROVE Spec => RestartLosesOnlyTorn
<1>1. ASSUME SafeInv, [Next]_vars
      PROVE  [boot = "check" => \A s \in (live \cup arch) \ (live' \cup arch') :
                                  row[s] = "none" \/ s \in torn \cup reverted]_vars
  BY <1>1, CheckKeepsHistory, Zenon DEF SafeInv
<1>2. SafeInv /\ [Next]_vars => SafeInv'
  BY SafeStep, Zenon
<1>. QED
  BY <1>1, <1>2, SafeInit, PTL DEF Spec, RestartLosesOnlyTorn

\* When archives end within the time they are waited for, resolve starts a
\* second session for a user only if at some moment since the message arrived
\* the first could not be loaded, or a late save has put its status back:
\* whatever the sweeper, the checks and other handlers do between its queries.
THEOREM SecondSessionOnlyIfVacant ==
  ASSUME ~SlowArchive, MaxSessions <= 2 PROVE Spec => SessionKept
<1>1. ASSUME SafeInv, [Next]_vars
      PROVE  [used' # used => res.vacant \/ reverted # {}]_vars
  BY <1>1, SecondSession, Zenon DEF SafeInv
<1>2. SafeInv /\ [Next]_vars => SafeInv'
  BY SafeStep, Zenon
<1>. QED
  BY <1>1, <1>2, SafeInit, PTL DEF Spec, SessionKept
=============================================================================
