---------------------------- MODULE SpawnAnnounce ----------------------------
(***************************************************************************)
(* Child sessions: the spawn tree, the announce a finished run-mode child  *)
(* leaves in its parent's queue, a parent that yields until its children   *)
(* are done, the timers that bound the wait, the spawn timeout, the        *)
(* announce sweeper and kill.                                              *)
(*                                                                         *)
(* Every activity that runs as a tokio task is a process: a turn of a      *)
(* session, the announce sweeper, and one timer per yield.  They           *)
(* interleave wherever the code releases one lock and takes another.  What *)
(* starts a turn, and the order of a session's queue, are SessionQueue's   *)
(* subject: here a turn of an idle session may start at any time, and the  *)
(* queue is the set of the announces in it.                                *)
(***************************************************************************)
EXTENDS Integers, FiniteSets

CONSTANTS
    Root,      \* the session the user talks to
    Children,  \* the ids create_child_session may hand out
    RunMode,   \* the children spawned with SpawnMode::Run
    Timed,     \* the children spawned with a spawn timeout
    MaySpawn,  \* the sessions that have the tool sessions_spawn
    MayKill,   \* the sessions that have the tool sessions_kill
    MayYield,  \* the sessions that have the tool sessions_yield
    MaxTurns,  \* [session -> Nat]: the turns started in a behaviour (a bound)
    Timers,    \* the yield timers that can be alive at a time (a bound)
    Sweeper,   \* the process of the announce sweeper
    None

ASSUME SpawnAssumption ==
    /\ RunMode \subseteq Children /\ Timed \subseteq Children
    /\ IsFiniteSet(Children)
    /\ MayYield \subseteq Children \cup {Root}
    /\ Root \notin Children /\ None \notin Children \cup {Root} \cup Timers
    /\ Sweeper \notin Children \cup {Root, None} \cup Timers
    /\ Timers \cap (Children \cup {Root}) = {} /\ MaxTurns \in [Children \cup {Root} -> Nat]

VARIABLES
    live,      \* the sessions in conversation_sessions (and in sessions)
    tree,      \* [Children -> "no" | "active" | "completed"]: the spawn tree
    parent,    \* [Children -> session]: parent_session_id of the tree's entry
    cstate,    \* [Children -> ...]: the child's entry in the parent's child_states
    handle,    \* the children registered in their parent's child_handles
    busy,      \* busy_count of the shutdown handle, less the running turns
    word,      \* [Children -> "none" | "queued" | "told"]: the child's last announce,
               \* in its parent's queue or injected into its history
    spoke,     \* the children whose history holds an assistant message
    llm,       \* the sessions whose llm_state is not Idle
    waiting,   \* the sessions whose is_yielding is set
    yhandle,   \* [session -> timer]: yield_timeout_handles
    armed,     \* the children whose spawn timeout has not fired yet
    left,      \* [session -> Nat]: the turns that can still be started
    proc       \* [process -> record]: what each process is doing

state  == <<live, tree, parent, cstate, handle, busy>>
turns  == <<spoke, llm>>
yields == <<waiting, yhandle>>
vars   == <<state, word, turns, yields, armed, left, proc>>

Sessions  == {Root} \cup Children
Processes == Sessions \cup {Sweeper} \cup Timers
Terminal  == {"completed", "errored", "terminated"}

\* The process record: pc; s the session of a timer; c the child being announced
\* or killed; k its descendants still to kill.
Ready == [pc |-> "idle", s |-> None, c |-> None, k |-> {}]

PCs == {"idle", "llm", "tools", "errored", "arm", "kill", "reply", "end",
        "mark", "reclaim", "unpushed", "recover", "cancel", "exit",
        "armed", "clear"}

-----------------------------------------------------------------------------
(***************************************************************************)
(* The spawn tree                                                          *)
(***************************************************************************)
InTree(c) == tree[c] # "no"

list_children(s) == {c \in Children : InTree(c) /\ parent[c] = s}

\* S and what is reached from it through kids: the least set closed under kids.
Closure(kids(_), S) ==
    {x \in Sessions :
        \A T \in SUBSET Sessions :
            S \subseteq T /\ (\A t \in T : kids(t) \subseteq T) => x \in T}

list_descendants(s) == Closure(list_children, list_children(s))

has_active_descendants(c) == \E d \in list_descendants(c) : tree[d] = "active"

has_running_run_mode_children(s) == list_children(s) \cap RunMode # {}

remove_descendant_entries(C) ==
    [c \in Children |-> IF c \in C \/ parent[c] \in C THEN "no" ELSE tree[c]]

\* exec_status
Idle(s) == s \in live /\ s \notin llm /\ s \notin waiting

\* ConversationSession::stop(cascade, Forceful) reaches the descendants through
\* the child handles; clear_exec_state drops what a session knows of its children.
Handled(s) == {c \in handle : parent[c] = s}
Stopped(s) == Closure(Handled, {s})
Cleared(S) == {c \in Children : parent[c] \in S}

Init ==
    /\ live = {Root} /\ tree = [c \in Children |-> "no"]
    /\ parent = [c \in Children |-> None]
    /\ cstate = [c \in Children |-> "none"] /\ handle = {} /\ busy = 0
    /\ word = [c \in Children |-> "none"] /\ spoke = {} /\ llm = {}
    /\ waiting = {} /\ yhandle = [s \in Sessions |-> None]
    /\ armed = {}
    /\ left = MaxTurns /\ proc = [p \in Processes |-> Ready]

At(p, pc)   == proc[p].pc = pc
Goto(p, pc) == proc' = [proc EXCEPT ![p].pc = pc]

\* An announce of child c reaches the queue of its parent; the queue keeps one
\* announce per child.
PushAnnounce(c) == word' = IF parent[c] \in live THEN [word EXCEPT ![c] = "queued"] ELSE word

-----------------------------------------------------------------------------
(***************************************************************************)
(* A turn: session_handler_dispatch.rs and session_handler_announce.rs     *)
(***************************************************************************)
Begin(s) ==
    /\ At(s, "idle") /\ s \in live \ llm /\ left[s] > 0
    /\ left' = [left EXCEPT ![s] = @ - 1]
    /\ llm' = llm \cup {s}
    /\ Goto(s, "llm")
    /\ UNCHANGED <<state, word, spoke, yields, armed>>

\* clear_busy_and_send: the flag first, then the tools or the error.
LlmReturns(s) ==
    /\ At(s, "llm")
    /\ llm' = llm \ {s}
    /\ \E pc \in {"tools", "errored"} : Goto(s, pc)
    /\ UNCHANGED <<state, word, spoke, yields, armed, left>>

\* create_child_session: nobody knows the child's id before it returns.
Spawn(s, c) ==
    /\ At(s, "tools") /\ s \in live \cap MaySpawn /\ parent[c] = None
    /\ live' = live \cup {c}
    /\ tree' = [tree EXCEPT ![c] = "active"]
    /\ parent' = [parent EXCEPT ![c] = s]
    /\ cstate' = [cstate EXCEPT ![c] = "running"]
    /\ handle' = handle \cup {c}
    /\ armed' = armed \cup ({c} \cap Timed)
    /\ busy' = busy + 2
    /\ UNCHANGED <<word, turns, yields, proc, left>>

\* sessions_yield: enter Waiting, ...
Yield(s) ==
    /\ At(s, "tools") /\ s \in live \cap MayYield
    /\ Cardinality({y \in Timers : At(y, "idle")}) > Cardinality({q \in Sessions : At(q, "arm")})
    /\ waiting' = waiting \cup {s}
    /\ Goto(s, "arm")
    /\ UNCHANGED <<state, word, turns, yhandle, armed, left>>

\* ... then start_yield_timeout: abort the timer of an earlier yield, start one.
Abort(y) == [q \in Processes |-> IF q = y THEN Ready ELSE proc[q]]

Arm(s) ==
    LET rest == Abort(yhandle[s]) IN
    /\ At(s, "arm")
    /\ \E y \in Timers :
          /\ rest[y].pc = "idle"
          /\ proc' = [rest EXCEPT ![s].pc = "reply",
                                  ![y] = [Ready EXCEPT !.pc = "armed", !.s = s]]
          /\ yhandle' = [yhandle EXCEPT ![s] = y]
    /\ UNCHANGED <<state, word, turns, waiting, armed, left>>

-----------------------------------------------------------------------------
(***************************************************************************)
(* try_push_announce of child proc[p].c: the check, the mark and the push, *)
(* the reclaim, the recovery of a waiting parent                           *)
(***************************************************************************)
Announceable(c, answered, states) ==
    /\ c \in RunMode /\ InTree(c)
    /\ {c, parent[c]} \subseteq live
    /\ states[c] \notin Terminal
    /\ c \in answered

\* The end of try_push_announce.
Continue(p) ==
    proc' = [proc EXCEPT ![p] = IF p = Sweeper THEN Ready ELSE [Ready EXCEPT !.pc = "end"]]

\* append_response, then the check of maybe_push_announce.
Reply(s) ==
    /\ At(s, "tools") \/ At(s, "reply")
    /\ spoke' = spoke \cup ({s} \cap live \cap Children)
    /\ IF Announceable(s, spoke', cstate)
       THEN proc' = [proc EXCEPT ![s].pc = "mark", ![s].c = s]
       ELSE Continue(s)
    /\ UNCHANGED <<state, word, llm, yields, armed, left>>

\* notify_child_error, then the same check.
Errored(s) ==
    /\ At(s, "errored")
    /\ cstate' = IF /\ s \in RunMode /\ InTree(s) /\ parent[s] \in live
                    /\ cstate[s] = "running"
                 THEN [cstate EXCEPT ![s] = "errored"] ELSE cstate
    /\ IF Announceable(s, spoke, cstate')
       THEN proc' = [proc EXCEPT ![s].pc = "mark", ![s].c = s]
       ELSE Continue(s)
    /\ UNCHANGED <<live, tree, parent, handle, busy, word, turns, yields, armed, left>>

Publish(p) ==
    LET c == proc[p].c IN
    /\ At(p, "mark")
    /\ cstate' = IF parent[c] \in live /\ cstate[c] # "none"
                 THEN [cstate EXCEPT ![c] = "completed"] ELSE cstate
    /\ PushAnnounce(c)
    /\ Goto(p, IF parent[c] \in live THEN "reclaim" ELSE "unpushed")
    /\ UNCHANGED <<live, tree, parent, handle, busy, turns, yields, armed, left>>

\* Reclaim the node (or mark it for the sweeper), then settle busy_count and
\* the parent's handle of the child.
Reclaim(p) ==
    LET c == proc[p].c
        known == parent[c] \in live
    IN
    /\ At(p, "reclaim") \/ At(p, "unpushed")
    /\ tree' = IF InTree(c)
               THEN [tree EXCEPT ![c] = IF At(p, "reclaim") THEN "no" ELSE "completed"]
               ELSE tree
    /\ busy' = busy - (IF known THEN 2 ELSE 1)
    /\ handle' = IF known THEN handle \ {c} ELSE handle
    /\ Goto(p, "recover")
    /\ UNCHANGED <<live, parent, cstate, word, turns, yields, armed, left>>

\* maybe_recover_yielded_session: abort the timer, ...
Recover(p) ==
    LET s == parent[proc[p].c] IN
    /\ At(p, "recover")
    /\ IF s \in live \cap waiting /\ ~ has_running_run_mode_children(s)
       THEN Goto(p, "cancel") ELSE Continue(p)
    /\ UNCHANGED <<state, word, turns, yields, armed, left>>

\* Mutant: the timer is aborted and the wait goes on.
CancelOnly(p) ==
    LET s == parent[proc[p].c] IN
    /\ At(p, "cancel")
    /\ proc' = [Abort(yhandle[s]) EXCEPT ![p] = Ready]
    /\ yhandle' = [yhandle EXCEPT ![s] = None]
    /\ UNCHANGED <<state, word, turns, waiting, armed, left>>

Cancel(p) ==
    LET s == parent[proc[p].c] IN
    /\ At(p, "cancel")
    /\ proc' = [Abort(yhandle[s]) EXCEPT ![p].pc = "exit"]
    /\ yhandle' = [yhandle EXCEPT ![s] = None]
    /\ UNCHANGED <<state, word, turns, waiting, armed, left>>

\* drain_announces: what is queued at s goes into its history.
InjectInto(s) ==
    word' = [c \in Children |-> IF word[c] = "queued" /\ parent[c] = s /\ s \in live
                                THEN "told" ELSE word[c]]

\* ... leave Waiting, and drain the queue of the resumed session: its messages
\* are answered here, without tools and without an announce.
Drain(s) ==
    /\ InjectInto(s)
    /\ \E answered \in BOOLEAN :
          spoke' = IF answered THEN spoke \cup ({s} \cap live \cap Children) ELSE spoke

Exit(p) ==
    LET s == parent[proc[p].c] IN
    /\ At(p, "exit")
    /\ waiting' = waiting \ {s}
    /\ Drain(s)
    /\ Continue(p)
    /\ UNCHANGED <<state, llm, yhandle, armed, left>>

\* The end of a turn.  The turn of a new message drains the announces; the turns
\* of the messages popped after it do not, nor does one that is told to stop.
EndTurn(s) ==
    /\ At(s, "end")
    /\ InjectInto(s) \/ UNCHANGED word
    /\ proc' = [proc EXCEPT ![s] = Ready]
    /\ UNCHANGED <<state, turns, yields, armed, left>>

-----------------------------------------------------------------------------
(***************************************************************************)
(* Timers: handle_yield_timeout and the spawn timeout                      *)
(***************************************************************************)
\* Mutant: a timer that fires while run-mode children remain is ignored.
FireUnlessRunning(y) ==
    LET s == proc[y].s IN
    /\ At(y, "armed") /\ ~ has_running_run_mode_children(s)
    /\ waiting' = waiting \ {s} /\ Goto(y, "clear")
    /\ UNCHANGED <<state, word, turns, yhandle, armed, left>>

Fire(y) ==
    LET s == proc[y].s IN
    /\ At(y, "armed")
    /\ IF s \in live
       THEN waiting' = waiting \ {s} /\ Goto(y, "clear") /\ UNCHANGED yhandle
       ELSE \* the handle of a task that has returned is as good as none
            /\ proc' = [proc EXCEPT ![y] = Ready]
            /\ yhandle' = [yhandle EXCEPT ![s] = IF @ = y THEN None ELSE @]
            /\ UNCHANGED waiting
    /\ UNCHANGED <<state, word, turns, armed, left>>

TimerClear(y) ==
    /\ At(y, "clear")
    /\ yhandle' = [yhandle EXCEPT ![proc[y].s] = None]
    /\ Drain(proc[y].s)
    /\ proc' = [proc EXCEPT ![y] = Ready]
    /\ UNCHANGED <<state, llm, waiting, armed, left>>

\* Nothing cancels the task of a spawn timeout, and it does not look at the child:
\* it stops what the child still runs and announces it as terminated.
SpawnTimeout(c) ==
    LET S == Stopped(c) IN
    /\ c \in armed
    /\ armed' = armed \ {c}
    /\ cstate' = [d \in Children |-> IF d \in Cleared(S) THEN "none" ELSE cstate[d]]
    /\ handle' = handle \ Cleared(S)
    /\ busy' = busy - Cardinality(handle \cap Cleared(S))
    /\ llm' = llm \ S
    /\ PushAnnounce(c)
    /\ UNCHANGED <<live, tree, parent, spoke, yields, left, proc>>

-----------------------------------------------------------------------------
(***************************************************************************)
(* kill_child, by a turn's tool or by the sweeper                          *)
(***************************************************************************)
\* The queue of a session goes with the session.
Dropped(s) == [c \in Children |-> IF word[c] = "queued" /\ parent[c] = s
                                  THEN "none" ELSE word[c]]

BeginKill(p, c) ==
    proc' = [proc EXCEPT ![p].pc = "kill", ![p].c = c, ![p].k = list_descendants(c)]

Kill(s, c) ==
    /\ At(s, "tools") /\ s \in MayKill /\ c \in list_children(s)
    /\ BeginKill(s, c)
    /\ UNCHANGED <<state, word, turns, yields, armed, left>>

\* Leaves before their parents, the child itself last: stop, persist, forget.
\* The sweeper then tells the parent of the child it found stale.
KillNext(p) ==
    LET last == proc[p].k = {}
        v == IF last THEN proc[p].c
             ELSE CHOOSE d \in proc[p].k : list_children(d) \cap proc[p].k = {}
        S == IF v \in live THEN Stopped(v) ELSE {}
        known == parent[v] \in live /\ (last \/ InTree(v))
        off == Cleared(S) \cup (IF known THEN {v} ELSE {})
    IN
    /\ At(p, "kill")
    /\ cstate' = [c \in Children |-> IF c \in off THEN "none" ELSE cstate[c]]
    /\ handle' = handle \ off
    /\ busy' = busy - Cardinality(handle \cap Cleared(S)) - (IF known THEN 1 ELSE 0)
    /\ llm' = llm \ S
    /\ live' = live \ {v}
    /\ waiting' = waiting \ {v}
    /\ word' = IF last /\ p = Sweeper /\ parent[v] \in live
               THEN [Dropped(v) EXCEPT ![v] = "queued"] ELSE Dropped(v)
    /\ tree' = [c \in Children |->
                   IF c = v \/ (~ last /\ parent[c] = v) THEN "no" ELSE tree[c]]
    /\ proc' = [proc EXCEPT ![p] =
                   IF ~ last THEN [proc[p] EXCEPT !.k = @ \ {v}]
                   ELSE IF p = Sweeper THEN Ready
                   ELSE [proc[p] EXCEPT !.pc = "reply", !.c = None]]
    /\ UNCHANGED <<parent, spoke, yhandle, armed, left>>

\* remove_session of the parent (archived after it has been idle).
Forget ==
    /\ Idle(Root)
    /\ live' = live \ {Root}
    /\ word' = Dropped(Root)
    /\ UNCHANGED <<tree, parent, cstate, handle, busy, turns, yields, armed, left, proc>>

-----------------------------------------------------------------------------
(***************************************************************************)
(* The announce sweeper                                                    *)
(***************************************************************************)
\* Mutant: an idle child is reclaimed whether or not its parent is gone.
SweepChildAny(c) ==
    /\ At(Sweeper, "idle") /\ c \in RunMode /\ InTree(c) /\ Idle(c)
    /\ tree' = remove_descendant_entries({c})
    /\ UNCHANGED <<live, parent, cstate, handle, busy, word, turns, yields, armed, left, proc>>

\* An idle child whose parent is gone is reclaimed; one that has answered is
\* announced; one that is busy or waits without output for
\* STALE_CHILD_THRESHOLD_SECS is killed.
SweepChild(c) ==
    /\ At(Sweeper, "idle") /\ c \in RunMode /\ InTree(c)
    /\ \/ /\ Idle(c) /\ parent[c] \notin live
          /\ tree' = remove_descendant_entries({c})
          /\ UNCHANGED proc
       \/ /\ Idle(c) /\ Announceable(c, spoke, cstate)
          /\ proc' = [proc EXCEPT ![Sweeper].pc = "mark", ![Sweeper].c = c]
          /\ UNCHANGED tree
       \/ /\ c \in live /\ ~ Idle(c)
          /\ BeginKill(Sweeper, c)
          /\ UNCHANGED tree
    /\ UNCHANGED <<live, parent, cstate, handle, busy, word, turns, yields, armed, left>>

\* Mutant: only entries marked completed are looked at.
SweepReclaimSpent ==
    LET spent == {c \in Children : tree[c] = "completed" /\ ~ has_active_descendants(c)} IN
    /\ At(Sweeper, "idle")
    /\ tree' = [c \in Children |-> IF c \in spent THEN "no" ELSE tree[c]]
    /\ UNCHANGED <<live, parent, cstate, handle, busy, word, turns, yields, armed, left, proc>>

\* sweep_spawn_tree_reclaim
SweepReclaim ==
    LET kept == remove_descendant_entries(
                    {c \in Children : InTree(c) /\ parent[c] \notin live})
        spent == {c \in Children : /\ tree[c] = "completed" /\ parent[c] \in live
                                   /\ ~ has_active_descendants(c)}
    IN
    /\ At(Sweeper, "idle")
    /\ tree' = [c \in Children |-> IF c \in spent THEN "no" ELSE kept[c]]
    /\ UNCHANGED <<live, parent, cstate, handle, busy, word, turns, yields, armed, left, proc>>

-----------------------------------------------------------------------------
Turn(s) == \/ LlmReturns(s) \/ Errored(s) \/ Yield(s) \/ Arm(s) \/ Reply(s)
           \/ EndTurn(s)
           \/ \E c \in Children : Spawn(s, c) \/ Kill(s, c)

Announcer(p) == \/ Publish(p) \/ Reclaim(p) \/ Recover(p) \/ Cancel(p) \/ Exit(p)
                \/ KillNext(p)

Timer(y) == Fire(y) \/ TimerClear(y)

Sweep == SweepReclaim \/ \E c \in Children : SweepChild(c)

Next ==
    \/ \E s \in Sessions : Begin(s) \/ Turn(s)
    \/ \E p \in Sessions \cup {Sweeper} : Announcer(p)
    \/ \E y \in Timers : Timer(y)
    \/ \E c \in Children : SpawnTimeout(c)
    \/ Sweep
    \/ Forget

Spec == Init /\ [][Next]_vars

\* Tokio runs every task that is ready, LLM calls return (a call that fails is an
\* answer too), timers fire, and the sweeper's loop never ends.
Fairness ==
    /\ \A s \in Sessions : WF_vars(Turn(s) \/ Announcer(s))
    /\ WF_vars(Sweep \/ Announcer(Sweeper))
    /\ \A y \in Timers : WF_vars(Timer(y))

FairSpec == Spec /\ Fairness

-----------------------------------------------------------------------------
(***************************************************************************)
(* Properties                                                              *)
(***************************************************************************)

\* Types of the variables.
TypeOK ==
    /\ live \subseteq Sessions
    /\ tree \in [Children -> {"no", "active", "completed"}]
    /\ parent \in [Children -> Sessions \cup {None}]
    /\ cstate \in [Children -> {"none", "running"} \cup Terminal]
    /\ handle \subseteq Children /\ busy \in Int
    /\ word \in [Children -> {"none", "queued", "told"}]
    /\ spoke \subseteq Children /\ llm \subseteq Sessions
    /\ waiting \subseteq Sessions /\ yhandle \in [Sessions -> Timers \cup {None}]
    /\ armed \subseteq Timed
    /\ left \in [Sessions -> Nat]
    /\ proc \in [Processes -> [pc : PCs, s : Sessions \cup {None},
                               c : Sessions \cup {None}, k : SUBSET Children]]

\* A session that waits is always about to be woken: its yield has a timer that
\* can still fire, or the turn that yielded is about to start one, or an
\* announcer that has aborted the timer is about to end the wait itself.  It is
\* the order in maybe_recover_yielded_session (cancel the timer, then leave
\* Waiting) and in sessions_yield (enter Waiting, then start the timer) that no
\* interleaving with a second yield may defeat.
WaitingIsGuarded ==
    \A s \in waiting :
        \/ \E y \in Timers : At(y, "armed") /\ proc[y].s = s
        \/ At(s, "arm")
        \/ \E p \in Sessions \cup {Sweeper} : At(p, "exit") /\ parent[proc[p].c] = s

\* The sessions of the child's line up to Root are all still there.
AncestorsLive(c) ==
    \E A \in SUBSET live : c \in A /\ \A x \in A : x = Root \/ parent[x] \in A

\* A child leaves the spawn tree only after its parent has been told: an entry is
\* gone while the child and its ancestors live only if an announce of the child
\* reached the parent's queue.  (try_push_announce reclaims the node after the
\* push, the sweeper's reclaim takes what has lost its parent.)
ReclaimedIsAnnounced ==
    \A c \in Children :
        parent[c] # None /\ tree[c] = "no" /\ AncestorsLive(c) => word[c] # "none"

\* Every increment_busy has its decrement_busy ("Pairs with decrement_busy() in
\* announce.rs when child result is injected into parent session"): once nothing
\* runs and no child is left, busy_count is back at zero.
BusyIsPaired ==
    (\A p \in Processes : At(p, "idle")) /\ handle = {} /\ (\A c \in Children : tree[c] = "no")
        => busy = 0

\* A wait ends, whatever becomes of the children: completed, errored (and then
\* never announced), killed or timed out.
YieldEnds == \A s \in MayYield : s \in waiting ~> s \notin waiting

\* An entry of the spawn tree whose parent is gone does not stay: the sweeper
\* reclaims it, whatever state the child was left in.
OrphansAreReclaimed ==
    \A c \in Children :
        (InTree(c) /\ parent[c] \notin live) ~> ~ InTree(c)
=============================================================================
