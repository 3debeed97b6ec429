------------------------------ MODULE Approval ------------------------------
(* Asking the Owner: the approval flow of the permission crate and the store *)
(* of agent rules that its whitelist feeds.                                  *)
(*                                                                           *)
(* A tool call is checked against the agent's rules.  The rules live in one  *)
(* file per agent, read lazily and cached under the file's modification      *)
(* time; the engine is behind a read/write lock that a check holds for       *)
(* reading, and the store of cached rules behind a lock of its own.  A       *)
(* denied call becomes a pending request that the Owner approves, once or    *)
(* with a whitelist rule, or denies.  The flow is one mutex, held while a    *)
(* rule is appended to the agent's file.  The file is rewritten in           *)
(* place, so a check can read it between the truncation and the write, and   *)
(* the invalidation that follows is skipped when a check holds the engine.   *)
(*                                                                           *)
(* Data: an operation is a model value with its risk; a rule is a subject    *)
(* kind and an operation; a modification time is a number that grows.  The   *)
(* operations are those the global rules leave to the default, deny.         *)
EXTENDS Naturals, FiniteSets

CONSTANTS Sessions,     \* sessions whose tool calls are checked
          Ops,          \* operations that no global rule allows
          Untrusted,    \* commands the shell analysis refuses to trust
          HighRisk,     \* operations of High or Critical risk, or config writes
          AgentOf,      \* session -> its agent
          SenderOf,     \* session -> the user bound to it, or NoUser
          SubAgents,    \* sessions of depth > 0
          NoUser,
          CoarseClock,  \* two writes may share one modification time
          Targets,      \* whitelist targets the Owner names
          MaxTime,      \* bound: modification times
          MaxCrashes    \* bound: crashes

ASSUME ApprovalConstants ==
  /\ Untrusted \subseteq HighRisk /\ HighRisk \subseteq Ops /\ "none" \notin Ops
  /\ SubAgents \subseteq Sessions
  /\ AgentOf \in [Sessions -> {AgentOf[s] : s \in Sessions}]
  /\ CoarseClock \in BOOLEAN
  /\ Targets \subseteq {"agent", "user", "useragent", "auto"}
  /\ MaxTime \in Nat /\ MaxCrashes \in Nat

VARIABLES check,     \* session -> where its check is, the operation, and the
                     \* modification time and rules it read for a reload
          cache,     \* agent -> what the store holds: NoEntry or an entry
          file,      \* agent -> its permissions.json
          request,   \* operation key -> none, pending, or denied and the
                     \* session not yet told
          holder,    \* what the holder of the flow's mutex is about to do
          job,       \* what that holder works on
          granted,   \* history: agent -> operations whitelisted for the agent
          due,       \* history: sessions whose check must be allowed
          crashes

checkVars == <<check, due>>
ruleVars == <<cache, file, granted>>
flowVars == <<request, holder, job>>
vars == <<checkVars, ruleVars, flowVars, crashes>>

Agents == {AgentOf[s] : s \in Sessions}
NoEntry == [mtime |-> 0, rules |-> {}, held |-> FALSE]

\* Whom a whitelist rule is about, and what it allows: nothing of high risk.
Rules == [subject : {"agent", "user", "useragent"}, op : Ops \ HighRisk]

\* The caller of a request.  The shell's trust check submits with no user.
CallerOf(s, o) == IF o \in Untrusted THEN NoUser ELSE SenderOf[s]
KeyOf(s, o) == <<CallerOf(s, o), AgentOf[s], o>>
Keys == {KeyOf(s, o) : s \in Sessions, o \in Ops}

NoCheck == [at |-> "idle", op |-> "none", stat |-> 0, text |-> {}]
Denied(o) == [at |-> "route", op |-> o, stat |-> 0, text |-> {}]
Idle == [agent |-> "none", rules |-> {}, op |-> "none"]

-----------------------------------------------------------------------------
(* The engine's verdict.                                                     *)

(* A tool call is evaluated with the session's bound sender as its own Owner, *)
(* or with no user at all: either way only rules about the agent count, and   *)
(* an operation that no rule allows is denied by default.                     *)
Allows(rules, o) == [subject |-> "agent", op |-> o] \in rules

\* Checks that hold the engine's lock for reading, and the store's lock.
Readers == {s \in Sessions : check[s].at \in {"eval", "stat", "text", "insert"}}
StoreFree == \A s \in Sessions : check[s].at \notin {"stat", "text", "insert"}

\* The cached entry is used only when the file is there with the same time.
IsCached(a) == cache[a].held /\ file[a].mtime # 0 /\ cache[a].mtime = file[a].mtime

\* What the next check of the agent would be judged by.
RulesInForce(a) == IF IsCached(a) THEN cache[a].rules ELSE file[a].rules

Rewriting(a) == holder = "fill" /\ job.agent = a

-----------------------------------------------------------------------------
(* Checking a tool call.                                                     *)

(* The tool asks the port for a verdict: the engine is locked for reading     *)
(* and the chain of parents is looked up.  A shell command that the analysis  *)
(* does not trust goes to the approval flow without a verdict.                *)
BeginCheck(s, o) ==
  /\ check[s].at = "idle"
  /\ check' = [check EXCEPT ![s].at = IF o \in Untrusted THEN "route" ELSE "eval", ![s].op = o]
  /\ due' = IF o \in granted[AgentOf[s]] \ Untrusted /\ ~Rewriting(AgentOf[s])
              THEN due \cup {s} ELSE due
  /\ UNCHANGED <<ruleVars, flowVars, crashes>>

(* The verdict releases both locks.  It ends the check or sends the denial to *)
(* the approval flow.                                                         *)
Verdict(s, rules) ==
  IF Allows(rules, check[s].op)
    THEN check' = [check EXCEPT ![s] = NoCheck] /\ due' = due \ {s}
    ELSE check' = [check EXCEPT ![s] = Denied(check[s].op)] /\ UNCHANGED due

\* A step of a reload, which holds the store's lock.
Reload(s, from, new) ==
  /\ check[s].at = from
  /\ check' = [check EXCEPT ![s] = new]
  /\ UNCHANGED <<due, ruleVars, flowVars, crashes>>

(* With the store locked, the file's time is compared with the entry's: an    *)
(* entry of the same time gives the verdict, anything else is reloaded.       *)
LookupTrusting(s) ==
  /\ check[s].at = "eval" /\ StoreFree
  /\ IF cache[AgentOf[s]].held
       THEN Verdict(s, cache[AgentOf[s]].rules)
       ELSE check' = [check EXCEPT ![s].at = "stat"] /\ UNCHANGED due
  /\ UNCHANGED <<ruleVars, flowVars, crashes>>

Lookup(s) ==
  /\ check[s].at = "eval" /\ StoreFree
  /\ IF IsCached(AgentOf[s])
       THEN Verdict(s, cache[AgentOf[s]].rules)
       ELSE check' = [check EXCEPT ![s].at = "stat"] /\ UNCHANGED due
  /\ UNCHANGED <<ruleVars, flowVars, crashes>>

\* A reload reads the file's time first ...
LoadStat(s) ==
  Reload(s, "stat", [check[s] EXCEPT !.at = "text", !.stat = file[AgentOf[s]].mtime])

\* ... and then its text; a missing, empty or broken file has no rules.
LoadText(s) ==
  Reload(s, "text", [check[s] EXCEPT !.at = "insert", !.text = file[AgentOf[s]].rules])

\* The entry is stored under the time read before the text.
InsertLateStat(s) ==
  /\ check[s].at = "insert"
  /\ cache' = [cache EXCEPT ![AgentOf[s]] =
                 [mtime |-> file[AgentOf[s]].mtime, rules |-> check[s].text, held |-> TRUE]]
  /\ Verdict(s, check[s].text)
  /\ UNCHANGED <<file, granted, flowVars, crashes>>

Insert(s) ==
  /\ check[s].at = "insert"
  /\ cache' = [cache EXCEPT ![AgentOf[s]] =
                 [mtime |-> check[s].stat, rules |-> check[s].text, held |-> TRUE]]
  /\ Verdict(s, check[s].text)
  /\ UNCHANGED <<file, granted, flowVars, crashes>>

(* A denial is submitted under the flow's mutex.  A sub-agent is denied, and  *)
(* so is a call whose operation is pending already, whichever session asked;  *)
(* otherwise the request is queued for the session and the Owner is notified. *)
Route(s) ==
  LET k == KeyOf(s, check[s].op) IN
  /\ check[s].at = "route" /\ holder = "free"
  /\ check' = [check EXCEPT ![s] = NoCheck] /\ due' = due \ {s}
  /\ request' = IF s \in SubAgents THEN request ELSE [request EXCEPT ![k] = "pending"]
  /\ UNCHANGED <<ruleVars, holder, job, crashes>>

-----------------------------------------------------------------------------
(* The Owner's decisions about operations.                                   *)

\* A request the Owner can answer now: the command waits for the mutex.
Pending(k) == holder = "free" /\ request[k] = "pending"

\* Approving once resolves the request; its callback is empty.
ApproveOnce(k) ==
  /\ Pending(k)
  /\ request' = [request EXCEPT ![k] = "none"]
  /\ UNCHANGED <<checkVars, ruleVars, holder, job, crashes>>

(* `auto' is about the agent for the Owner or when there is no user, about    *)
(* user and agent otherwise; with no user every target is about the agent.    *)
SubjectFor(u, t) ==
  IF u = NoUser \/ (t = "auto" /\ u = "owner") THEN "agent"
  ELSE IF t = "auto" THEN "useragent" ELSE t

\* The mutex's holder is to rewrite the agent's file with the given rules.
Rewrite(k, t, rules) ==
  LET rule == [subject |-> SubjectFor(k[1], t), op |-> k[3]] IN
  /\ holder' = "truncate"
  /\ job' = [Idle EXCEPT !.agent = k[2], !.rules = rules \cup {rule},
                         !.op = IF rule.subject = "agent" THEN k[3] ELSE "none"]

(* Approving with a whitelist is refused for operations of high risk, and the *)
(* request stays pending.  Otherwise the request is resolved and, still under *)
(* the mutex, the agent's file is read to be rewritten with the new rule.     *)
ApproveWhitelistFresh(k, t) ==
  /\ Pending(k) /\ k[3] \notin HighRisk
  /\ file[k[2]].mtime + 2 <= MaxTime
  /\ request' = [request EXCEPT ![k] = "none"]
  /\ Rewrite(k, t, {})
  /\ UNCHANGED <<checkVars, ruleVars, crashes>>

ApproveWhitelistAnyRisk(k, t) ==
  /\ Pending(k)
  /\ file[k[2]].mtime + 2 <= MaxTime
  /\ request' = [request EXCEPT ![k] = "none"]
  /\ Rewrite(k, t, file[k[2]].rules)
  /\ UNCHANGED <<checkVars, ruleVars, crashes>>

ApproveWhitelist(k, t) ==
  /\ Pending(k) /\ k[3] \notin HighRisk
  /\ file[k[2]].mtime + 2 <= MaxTime
  /\ request' = [request EXCEPT ![k] = "none"]
  /\ Rewrite(k, t, file[k[2]].rules)
  /\ UNCHANGED <<checkVars, ruleVars, crashes>>

\* The time a file gets when it is written; a coarse clock may not have moved.
TimesAfter(t) == IF CoarseClock /\ t # 0 THEN {t, t + 1} ELSE {t + 1}

(* The file is rewritten in place: opening it truncates it, so for a while it  *)
(* holds no rules.  From here a check may be denied what it was granted.       *)
Truncate ==
  /\ holder = "truncate"
  /\ \E t \in TimesAfter(file[job.agent].mtime) :
       file' = [file EXCEPT ![job.agent] = [mtime |-> t, rules |-> {}]]
  /\ holder' = "fill"
  /\ due' = {s \in due : AgentOf[s] # job.agent}
  /\ UNCHANGED <<check, cache, granted, request, job, crashes>>

Fill ==
  /\ holder = "fill"
  /\ \E t \in TimesAfter(file[job.agent].mtime) :
       file' = [file EXCEPT ![job.agent] = [mtime |-> t, rules |-> job.rules]]
  /\ granted' = [granted EXCEPT ![job.agent] = @ \cup ({job.op} \cap Ops)]
  /\ holder' = "notify"
  /\ UNCHANGED <<checkVars, cache, request, job, crashes>>

(* A failing write is logged and the approval stands.  Before the truncation   *)
(* nothing is lost; after it the agent's file is left empty.                   *)
AppendFails ==
  /\ holder \in {"truncate", "fill"}
  /\ granted' = IF holder = "fill" THEN [granted EXCEPT ![job.agent] = {}] ELSE granted
  /\ holder' = "free" /\ job' = Idle
  /\ UNCHANGED <<checkVars, cache, file, request, crashes>>

(* The callback drops the agent's entry if it gets the engine's lock at once,  *)
(* and is skipped when a check holds it.                                       *)
Notify ==
  /\ holder = "notify"
  /\ cache' = IF Readers = {} THEN [cache EXCEPT ![job.agent] = NoEntry] ELSE cache
  /\ holder' = "free" /\ job' = Idle
  /\ UNCHANGED <<checkVars, file, granted, request, crashes>>

\* A denial resolves the request and spawns a task that tells the session.
Deny(k) ==
  /\ Pending(k)
  /\ request' = [request EXCEPT ![k] = "denied"]
  /\ UNCHANGED <<checkVars, ruleVars, holder, job, crashes>>

(* The task pushes the answer into the session's queue.  A push that comes     *)
(* after the operation was asked for again changes nothing modelled here.      *)
Push(k) ==
  /\ request[k] = "denied"
  /\ request' = [request EXCEPT ![k] = "none"]
  /\ UNCHANGED <<checkVars, ruleVars, holder, job, crashes>>

\* At shutdown every request is denied and nobody is told.
Clear ==
  /\ holder = "free"
  /\ request' = [k \in Keys |-> IF request[k] = "pending" THEN "none" ELSE request[k]]
  /\ UNCHANGED <<checkVars, ruleVars, holder, job, crashes>>

-----------------------------------------------------------------------------
(* A crash forgets everything but the files, which stay as they are: one that *)
(* was truncated and not yet written holds nothing.                           *)
Crash ==
  /\ crashes < MaxCrashes
  /\ crashes' = crashes + 1
  /\ check' = [s \in Sessions |-> NoCheck] /\ due' = {}
  /\ cache' = [a \in Agents |-> NoEntry]
  /\ request' = [k \in Keys |-> "none"]
  /\ holder' = "free" /\ job' = Idle
  /\ granted' = [a \in Agents |-> IF Rewriting(a) THEN {} ELSE granted[a]]
  /\ UNCHANGED file

Init ==
  /\ check = [s \in Sessions |-> NoCheck]
  /\ cache = [a \in Agents |-> NoEntry]
  /\ file = [a \in Agents |-> [mtime |-> 0, rules |-> {}]]
  /\ request = [k \in Keys |-> "none"]
  /\ holder = "free" /\ job = Idle
  /\ granted = [a \in Agents |-> {}]
  /\ due = {}
  /\ crashes = 0

\* What a session's task does once its check has begun.
CheckStep(s) == Lookup(s) \/ LoadStat(s) \/ LoadText(s) \/ Insert(s) \/ Route(s)

\* What the holder of the flow's mutex does until it releases it.
FlowStep == Truncate \/ Fill \/ Notify

Next ==
  \/ \E s \in Sessions : \/ \E o \in Ops : BeginCheck(s, o)
                         \/ CheckStep(s)
  \/ \E k \in Keys : \/ ApproveOnce(k) \/ Deny(k) \/ Push(k)
                     \/ \E t \in Targets : ApproveWhitelist(k, t)
  \/ FlowStep \/ AppendFails \/ Clear
  \/ Crash

Spec == Init /\ [][Next]_vars

-----------------------------------------------------------------------------
(* Properties.                                                               *)

(* The shape of the state; no rule about an operation of high risk is ever    *)
(* written, cached or read.                                                   *)
TypeOK ==
  /\ check \in [Sessions -> [at : {"idle", "eval", "stat", "text", "insert", "route"},
                              op : Ops \cup {"none"}, stat : 0 .. MaxTime,
                              text : SUBSET Rules]]
  /\ cache \in [Agents -> [mtime : 0 .. MaxTime, rules : SUBSET Rules, held : BOOLEAN]]
  /\ file \in [Agents -> [mtime : 0 .. MaxTime, rules : SUBSET Rules]]
  /\ request \in [Keys -> {"none", "pending", "denied"}]
  /\ holder \in {"free", "truncate", "fill", "notify"}
  /\ granted \in [Agents -> SUBSET Ops] /\ due \subseteq Sessions
  /\ crashes \in 0 .. MaxCrashes

(* A cached entry whose modification time is the file's holds the file's      *)
(* rules, although the file is rewritten in place while it is being read and  *)
(* the callback may skip the invalidation.                                    *)
CacheFresh == \A a \in Agents : IsCached(a) => cache[a].rules = file[a].rules

(* Every operation whitelisted for an agent is in force for its next check,   *)
(* whatever was approved since, unless its file is being rewritten.           *)
GrantInForce ==
  \A a \in Agents : ~Rewriting(a) => \A o \in granted[a] : Allows(RulesInForce(a), o)

(* A check that began after its operation was whitelisted is not denied,      *)
(* unless the agent's file was rewritten while it ran.                        *)
GrantedIsNotAsked == \A s \in Sessions : check[s].at = "route" => s \notin due
=============================================================================
