---------------------------- MODULE SessionQueue ----------------------------
(***************************************************************************)
(* The queue of one session: user messages that find the session busy, the *)
(* announces of its children, notices of finished background tasks and     *)
(* system notifications, in one list ordered by priority; the turns that   *)
(* drain it, and the drain of a session that resumes after a yield.        *)
(*                                                                         *)
(* Every message has a task of its own that handles it.  A step is what a  *)
(* task does under one lock of the session; an LLM call, tool calls and    *)
(* the health check at the end of a turn take time but leave the queue     *)
(* alone.                                                                  *)
(***************************************************************************)
EXTENDS Integers, Sequences

CONSTANTS
    Messages,   \* the user messages
    Announces,  \* the children that announce: an entry each
    Jobs,       \* the background tasks that finish
    Notices,    \* the system notifications, each pushed once
    Priority,   \* [announce, task or notice -> 0 .. 2]: Later, Next, Now
    Resumer,    \* the task that resumes the session after a yield
    MayStop,    \* whether the health check of a turn may ask to stop
    MaxPushes,  \* how often a child announces in a behaviour (a bound)
    MaxRetries, \* how many retries the health check asks for (a bound)
    None

Entries == Announces \cup Jobs \cup Notices

ASSUME QueueAssumption ==
    /\ Messages \cap Entries = {} /\ Jobs \cap Notices = {}
    /\ Announces \cap (Jobs \cup Notices) = {}
    /\ Priority \in [Entries -> 0 .. 2]
    /\ Resumer \notin Messages /\ None \notin Messages \cup Entries
    /\ MayStop \in BOOLEAN /\ MaxPushes \in Nat /\ MaxRetries \in Nat

VARIABLES
    queue,     \* the UnifiedMessageQueue, a sequence of messages and entries
    busy,      \* is_llm_busy
    finished,  \* the task manager's list of notifications, oldest first
    told,      \* [message or entry -> Nat]: how often it reached the history
    pushed,    \* [entry -> Nat]: how often it was pushed
    line,      \* the user messages in the order in which they were queued
    retries,   \* the retries asked for
    stopped,   \* whether a health check asked to stop
    proc       \* [task -> [pc, cur, notes]]: what it does, the message it answers
               \* and the notifications it has taken from the task manager

vars == <<queue, busy, finished, told, pushed, line, retries, stopped, proc>>

Procs == Messages \cup {Resumer}

PCs == {"new", "queue", "start", "llm", "notes", "push", "drain", "pop", "got", "done"}

At(p, pc)   == proc[p].pc = pc
Goto(p, pc) == proc' = [proc EXCEPT ![p].pc = pc]
Serve(p, m) == proc' = [proc EXCEPT ![p].pc = "got", ![p].cur = m]
Leave(p)    == proc' = [proc EXCEPT ![p].pc = "done", ![p].cur = None]

-----------------------------------------------------------------------------
(***************************************************************************)
(* UnifiedMessageQueue                                                     *)
(***************************************************************************)
IsUser(e) == e \in Messages

priority(e) == IF IsUser(e) THEN 0 ELSE Priority[e]

\* The order of sort_key: higher priority first, user messages last.  Behind
\* them comes the sequence number, which a push takes from a counter: a new
\* entry follows those it ties with, and the list itself keeps that order.
Before(d, e) ==
    \/ priority(d) > priority(e)
    \/ priority(d) = priority(e) /\ ~ IsUser(d) /\ IsUser(e)

First(I) == CHOOSE i \in I : \A j \in I : i <= j

\* q with e in front of what is at the first of the indices in after.
Insert(q, e, after) ==
    LET i == First(after) IN
    IF after = {} THEN Append(q, e) ELSE SubSeq(q, 1, i - 1) \o <<e>> \o SubSeq(q, i, Len(q))

Queued(e) == \E i \in DOMAIN queue : queue[i] = e

\* Mutant: a new entry goes in front of those it ties with.
PushFirst(q, e) ==
    IF e \in Announces /\ \E i \in DOMAIN q : q[i] = e THEN q
    ELSE Insert(q, e, {i \in DOMAIN q : ~ Before(q[i], e)})

push(q, e) ==
    IF e \in Announces /\ \E i \in DOMAIN q : q[i] = e THEN q
    ELSE Insert(q, e, {i \in DOMAIN q : Before(e, q[i])})

\* The entries at the indices in kept are pushed to q, one after the other.
pushAll(q, entries, kept) ==
    LET result[i \in 0 .. Len(entries)] ==
            IF i = 0 THEN q
            ELSE IF i \in kept THEN push(result[i - 1], entries[i])
            ELSE result[i - 1]
    IN  result[Len(entries)]

\* Mutant: the filter keeps nothing.
DrainedAll == <<>>

Users == {i \in DOMAIN queue : IsUser(queue[i])}

\* drain_announces: all but the user messages leave, these are pushed again.
Drained == pushAll(<<>>, queue, Users)

FirstUser == IF Users = {} THEN 0 ELSE First(Users)

\* pop_pending: the first user message leaves, the others are pushed again.
Popped == pushAll(<<>>, queue, DOMAIN queue \ {FirstUser})

Init ==
    /\ queue = <<>>
    /\ busy = FALSE /\ finished = <<>> /\ line = <<>>
    /\ told = [e \in Messages \cup Entries |-> 0]
    /\ pushed = [e \in Entries |-> 0]
    /\ retries = 0 /\ stopped = FALSE
    /\ proc = [p \in Procs |-> [pc |-> "new", cur |-> None, notes |-> <<>>]]

-----------------------------------------------------------------------------
(***************************************************************************)
(* A message arrives: handle_message_with_gateway                          *)
(***************************************************************************)
Check(m) ==
    /\ At(m, "new")
    /\ Goto(m, IF busy THEN "queue" ELSE "start")
    /\ UNCHANGED <<queue, busy, finished, told, pushed, line, retries, stopped>>

enqueue_pending(m) ==
    /\ At(m, "queue")
    /\ queue' = push(queue, m)
    /\ line' = Append(line, m)
    /\ Goto(m, "done")
    /\ UNCHANGED <<busy, finished, told, pushed, retries, stopped>>

\* The message goes into the history, then dispatch_llm_call sets the flag.
dispatch_llm_call(m) ==
    /\ At(m, "start")
    /\ busy' = TRUE
    /\ told' = [told EXCEPT ![m] = @ + 1]
    /\ proc' = [proc EXCEPT ![m].pc = "llm", ![m].cur = m]
    /\ UNCHANGED <<queue, finished, pushed, line, retries, stopped>>

-----------------------------------------------------------------------------
(***************************************************************************)
(* The end of a turn                                                       *)
(***************************************************************************)
\* Mutant: the flag is left to the last drained message, which may not come.
ReturnBusy(p) ==
    /\ At(p, "llm")
    /\ busy' = (proc[p].cur = p)
    /\ Goto(p, IF proc[p].cur = p THEN "notes" ELSE "pop")
    /\ UNCHANGED <<queue, finished, told, pushed, line, retries, stopped>>

\* clear_busy_and_send.  The health check may ask to stop, which ends the task
\* without a drain, or to retry: an LLM call without the flag, then this again.
\* The drain of a resumed session has no health check.
clear_busy_and_send(p) ==
    /\ At(p, "llm")
    /\ busy' = FALSE
    /\ \/ /\ Goto(p, IF proc[p].cur = p THEN "notes" ELSE "pop")
          /\ UNCHANGED <<retries, stopped>>
       \/ /\ MayStop /\ p # Resumer
          /\ Leave(p)
          /\ stopped' = TRUE
          /\ UNCHANGED retries
       \/ /\ retries < MaxRetries /\ p # Resumer
          /\ retries' = retries + 1
          /\ UNCHANGED <<stopped, proc>>
    /\ UNCHANGED <<queue, finished, told, pushed, line>>

\* drain_announces_rest: the notifications of the task manager are taken, ...
TakeNotes(p) ==
    /\ At(p, "notes")
    /\ proc' = [proc EXCEPT ![p].pc = "push", ![p].notes = finished]
    /\ finished' = <<>>
    /\ UNCHANGED <<queue, busy, told, pushed, line, retries, stopped>>

\* ... and pushed to the queue under the lock of the session, ...
PushNotes(p) ==
    /\ At(p, "push")
    /\ queue' = pushAll(queue, proc[p].notes, DOMAIN proc[p].notes)
    /\ proc' = [proc EXCEPT ![p].pc = "drain", ![p].notes = <<>>]
    /\ UNCHANGED <<busy, finished, told, pushed, line, retries, stopped>>

\* ... then drain_and_inject_announces, until there are none.
Drain(p) ==
    LET entries == {e \in Entries : Queued(e)} IN
    /\ At(p, "drain")
    /\ queue' = Drained
    /\ told' = [e \in DOMAIN told |-> IF e \in entries THEN told[e] + 1 ELSE told[e]]
    /\ Goto(p, IF entries = {} THEN "pop" ELSE "drain")
    /\ UNCHANGED <<busy, finished, pushed, line, retries, stopped>>

\* Mutant: the head of the queue is taken for a user message.
PopHead(p) ==
    /\ At(p, "pop")
    /\ queue' = IF queue = <<>> THEN queue ELSE Tail(queue)
    /\ IF queue = <<>> THEN Leave(p) ELSE Serve(p, queue[1])
    /\ UNCHANGED <<busy, finished, told, pushed, line, retries, stopped>>

\* Mutant: a task answers one queued message and leaves the others.
PopOne(p) ==
    /\ At(p, "pop")
    /\ IF proc[p].cur \in {p, None} /\ FirstUser # 0
       THEN queue' = Popped /\ Serve(p, queue[FirstUser])
       ELSE Leave(p) /\ UNCHANGED queue
    /\ UNCHANGED <<busy, finished, told, pushed, line, retries, stopped>>

\* drain_pending_loop: the next user message, ...
Pop(p) ==
    /\ At(p, "pop")
    /\ queue' = Popped
    /\ IF FirstUser = 0 THEN Leave(p) ELSE Serve(p, queue[FirstUser])
    /\ UNCHANGED <<busy, finished, told, pushed, line, retries, stopped>>

\* ... and a turn for it.
Answer(p) ==
    /\ At(p, "got")
    /\ busy' = TRUE
    /\ told' = [told EXCEPT ![proc[p].cur] = @ + 1]
    /\ Goto(p, "llm")
    /\ UNCHANGED <<queue, finished, pushed, line, retries, stopped>>

\* drain_pending_for_session, once in a behaviour.
Resume ==
    /\ At(Resumer, "new")
    /\ Goto(Resumer, "drain")
    /\ UNCHANGED <<queue, busy, finished, told, pushed, line, retries, stopped>>

-----------------------------------------------------------------------------
(***************************************************************************)
(* What others push                                                        *)
(***************************************************************************)
PushEntry(e) ==
    /\ IF e \in Announces THEN Queued(e) \/ pushed[e] < MaxPushes ELSE pushed[e] = 0
    /\ queue' = push(queue, e)
    /\ pushed' = IF queue' = queue THEN pushed ELSE [pushed EXCEPT ![e] = @ + 1]
    /\ UNCHANGED <<busy, finished, told, line, retries, stopped, proc>>

TaskFinishes(t) ==
    /\ pushed[t] = 0
    /\ finished' = Append(finished, t)
    /\ pushed' = [pushed EXCEPT ![t] = 1]
    /\ UNCHANGED <<queue, busy, told, line, retries, stopped, proc>>

-----------------------------------------------------------------------------
Handle(p) ==
    \/ clear_busy_and_send(p) \/ TakeNotes(p) \/ PushNotes(p) \/ Drain(p)
    \/ Pop(p) \/ Answer(p)

Start(m) == enqueue_pending(m) \/ dispatch_llm_call(m)

Next ==
    \/ \E m \in Messages : Check(m) \/ Start(m)
    \/ \E p \in Procs : Handle(p)
    \/ Resume
    \/ \E e \in Announces \cup Notices : PushEntry(e)
    \/ \E t \in Jobs : TaskFinishes(t)

Spec == Init /\ [][Next]_vars

\* A task that has begun goes on: tokio schedules it, and an LLM call returns.
Fairness ==
    /\ \A m \in Messages : WF_vars(Start(m) \/ Handle(m))
    /\ WF_vars(Handle(Resumer))

FairSpec == Spec /\ Fairness

-----------------------------------------------------------------------------
(***************************************************************************)
(* Properties                                                              *)
(***************************************************************************)

\* Types of the variables.
TypeOK ==
    /\ queue \in Seq(Messages \cup Entries) /\ line \in Seq(Messages)
    /\ busy \in BOOLEAN /\ stopped \in BOOLEAN /\ finished \in Seq(Jobs)
    /\ told \in [Messages \cup Entries -> Nat] /\ pushed \in [Entries -> Nat]
    /\ retries \in 0 .. MaxRetries
    /\ proc \in [Procs -> [pc : PCs, cur : Messages \cup {None}, notes : Seq(Jobs)]]

\* The queue is in the order of the sort keys, and what is queued of the user
\* messages is the end of their line: behind a queued message are all that were
\* queued after it.  pop_pending and drain_announces empty the queue and push
\* what they keep again, under new sequence numbers, which must not change the
\* order of any two.
QueueOrdered ==
    /\ \A i, j \in DOMAIN queue : i < j => ~ Before(queue[j], queue[i])
    /\ \A k, l \in DOMAIN line : k < l /\ Queued(line[k]) =>
           \E i, j \in DOMAIN queue : i < j /\ queue[i] = line[k] /\ queue[j] = line[l]

One(P) == IF P THEN 1 ELSE 0

\* A user message is at one place: with the task that brought it, in the queue,
\* with the one task that popped it, or in the history.
MessagesConserved ==
    /\ \A m \in Messages :
          told[m] + One(Queued(m)) + One(proc[m].pc \in {"new", "queue", "start"})
          + One(\E p \in Procs : At(p, "got") /\ proc[p].cur = m) = 1
    /\ \A p, q \in Procs : At(p, "got") /\ At(q, "got") /\ proc[p].cur = proc[q].cur =>
          p = q

\* An entry that was pushed is in the queue, with the task manager, with a task
\* that is about to push it, or in the history, as often as it was pushed.
EntriesConserved ==
    \A e \in Entries :
        pushed[e] = told[e] + One(Queued(e)) + One(\E i \in DOMAIN finished : finished[i] = e)
                    + One(\E p \in Procs : \E i \in DOMAIN proc[p].notes : proc[p].notes[i] = e)

\* Nothing is lost or doubled between the tasks that push and the tasks that
\* drain, although drain_announces and pop_pending empty the queue and push again
\* what they keep, and turns overlap.
NothingLost ==
    /\ \A i, j \in DOMAIN queue : queue[i] = queue[j] => i = j
    /\ MessagesConserved /\ EntriesConserved

\* The flag that makes messages wait is set only while some task is in an LLM
\* call, at the end of which the queue is drained: the flag never stays behind,
\* although any of several tasks may set and clear it.
BusyHasTurn == busy => \E p \in Procs : At(p, "llm")

\* A message in the queue while the flag is set is taken out again, unless the
\* health check stops a turn.
QueuedWhileBusyIsTaken ==
    \A m \in Messages : (Queued(m) /\ busy) ~> (~ Queued(m) \/ stopped)

\* A message that was queued because a turn was running is injected when that
\* turn has ended (docs/requirements/session.md, F10).
QueuedIsTaken == \A m \in Messages : Queued(m) ~> ~ Queued(m)
=============================================================================
