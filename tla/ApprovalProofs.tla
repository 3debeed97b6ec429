--------------------------- MODULE ApprovalProofs ---------------------------
(* Proofs about the approval flow and the store of agent rules, for any        *)
(* sessions, agents, operations and targets; and about the registration of     *)
(* new users, for any senders (at the end).                                    *)
(*                                                                             *)
(* Base says that the mutex's holder has the agent's rules in hand while the   *)
(* file is truncated, that no one has seen a time later than the file's, and   *)
(* that what was granted is in the file, or in hand.  It holds whatever the    *)
(* clock.  Fine, for a clock that moves with every write, says that an entry   *)
(* of the file's time, and a text read under it, has the file's rules, and     *)
(* that a check which must be allowed runs on a file that allows it.           *)
EXTENDS Approval, Registration, TLAPS

JobSet == [agent : Agents \cup {"none"}, rules : SUBSET Rules, op : Ops \cup {"none"}]

\* What the holder of the mutex works on while it rewrites a file.
JobInv ==
  /\ job \in JobSet
  /\ holder # "free" => job.agent \in Agents
  /\ holder = "truncate" => file[job.agent].mtime + 2 <= MaxTime
  /\ holder = "fill" => file[job.agent].mtime + 1 <= MaxTime
  /\ holder = "truncate" => file[job.agent].rules \subseteq job.rules
  /\ holder \in {"truncate", "fill"} /\ job.op \in Ops => Allows(job.rules, job.op)

\* No check and no entry knows a time later than the file's.
TimeInv ==
  /\ \A a \in Agents : cache[a].mtime <= file[a].mtime
  /\ \A s \in Sessions : check[s].stat <= file[AgentOf[s]].mtime

\* What was granted is in the file, or in the hands of the one rewriting it.
GrantInv ==
  \A a \in Agents : \A o \in granted[a] :
    IF Rewriting(a) THEN Allows(job.rules, o) ELSE Allows(file[a].rules, o)

Base == TypeOK /\ JobInv /\ TimeInv /\ GrantInv

\* A check that must be allowed has a file, and a text, that allow it.
DueInv ==
  \A s \in due :
    /\ check[s].at \in {"eval", "stat", "text", "insert"}
    /\ ~Rewriting(AgentOf[s])
    /\ Allows(file[AgentOf[s]].rules, check[s].op)
    /\ check[s].at = "insert" => Allows(check[s].text, check[s].op)

\* A text that was read under the file's time is the file's.
TextFresh ==
  \A s \in Sessions :
    check[s].at = "insert" /\ check[s].stat = file[AgentOf[s]].mtime
      => check[s].text = file[AgentOf[s]].rules

Fine == CacheFresh /\ TextFresh /\ DueInv

-----------------------------------------------------------------------------
(* Base.                                                                     *)

\* A session's agent is an agent.
LEMMA AgentOfType == \A s \in Sessions : AgentOf[s] \in Agents
  BY Zenon DEF Agents

\* An operation key has an agent and an operation.
LEMMA KeyParts == \A k \in Keys : k[2] \in Agents /\ k[3] \in Ops
  BY DEF Keys, KeyOf, Agents

\* The rule an approval appends is a rule.
LEMMA NewRule ==
  ASSUME NEW u, NEW t \in Targets, NEW o \in Ops \ HighRisk
  PROVE  [subject |-> SubjectFor(u, t), op |-> o] \in Rules
<1>1. SubjectFor(u, t) \in {"agent", "user", "useragent"}
  BY ApprovalConstants, Zenon DEF SubjectFor
<1> QED BY <1>1, Zenon DEF Rules

\* Initially nothing is asked, cached or granted.
LEMMA InitBase == Init => Base
<1> SUFFICES ASSUME Init PROVE Base
  OBVIOUS
<1>1. NoCheck \in [at : {"idle", "eval", "stat", "text", "insert", "route"},
                   op : Ops \cup {"none"}, stat : 0 .. MaxTime, text : SUBSET Rules]
  BY ApprovalConstants DEF NoCheck
<1>2. NoEntry \in [mtime : 0 .. MaxTime, rules : SUBSET Rules, held : BOOLEAN]
  BY ApprovalConstants DEF NoEntry
<1>3. Idle \in JobSet
  BY Zenon DEF Idle, JobSet
<1>4. TypeOK
  BY <1>1, <1>2, ApprovalConstants DEF Init, TypeOK
<1>5. JobInv
  BY <1>3, Zenon DEF Init, JobInv
<1>6. TimeInv
  BY AgentOfType DEF Init, TimeInv, NoEntry, NoCheck
<1>7. GrantInv
  BY Zenon DEF Init, GrantInv
<1> QED BY <1>4, <1>5, <1>6, <1>7, Zenon DEF Base

CheckSet == [at : {"idle", "eval", "stat", "text", "insert", "route"},
             op : Ops \cup {"none"}, stat : 0 .. MaxTime, text : SUBSET Rules]
EntrySet == [mtime : 0 .. MaxTime, rules : SUBSET Rules, held : BOOLEAN]
FileSet == [mtime : 0 .. MaxTime, rules : SUBSET Rules]

\* Steps that leave the files, the mutex and the grants alone keep their facts.
LEMMA FlowFrame ==
  ASSUME JobInv, GrantInv, UNCHANGED <<file, granted, holder, job>>
  PROVE  JobInv' /\ GrantInv'
  BY Zenon DEF JobInv, GrantInv, Rewriting, Allows

\* A check that changes only its own locals and knows no later time keeps Base.
LEMMA CheckFrame ==
  ASSUME Base, NEW s \in Sessions, NEW c \in CheckSet,
         c.stat <= file[AgentOf[s]].mtime,
         check' = [check EXCEPT ![s] = c], due' \subseteq Sessions,
         request' \in [Keys -> {"none", "pending", "denied"}],
         UNCHANGED <<ruleVars, holder, job, crashes>>
  PROVE  Base'
<1> USE DEF ruleVars
<1>1. TypeOK'
  <2>1. check' \in [Sessions -> CheckSet]
    BY Zenon DEF Base, TypeOK, CheckSet
  <2> QED BY <2>1, Zenon DEF Base, TypeOK, CheckSet
<1>2. JobInv' /\ GrantInv'
  BY FlowFrame, Zenon DEF Base
<1>3. TimeInv'
  <2>1. \A r \in Sessions : check'[r].stat <= file[AgentOf[r]].mtime
    BY Zenon DEF Base, TypeOK, TimeInv
  <2> QED BY <2>1, Zenon DEF Base, TimeInv
<1> QED BY <1>1, <1>2, <1>3, Zenon DEF Base

\* What a check may become when a verdict is given.
LEMMA VerdictType ==
  ASSUME Base, NEW s \in Sessions, NEW rules, check[s].at # "idle", Verdict(s, rules)
  PROVE  /\ due' \subseteq Sessions
         /\ \E c \in CheckSet : c.stat = 0 /\ check' = [check EXCEPT ![s] = c]
<1>1. check[s] \in CheckSet
  BY Zenon DEF Base, TypeOK, CheckSet
<1>2. NoCheck \in CheckSet /\ NoCheck.stat = 0
  BY ApprovalConstants DEF NoCheck, CheckSet
<1> DEFINE d == Denied(check[s].op)
<1>3. d \in CheckSet /\ d.stat = 0
  BY <1>1, ApprovalConstants DEF Denied, CheckSet
<1>4. due \subseteq Sessions
  BY Zenon DEF Base, TypeOK
<1> HIDE DEF d
<1>5. check' = [check EXCEPT ![s] = NoCheck] \/ check' = [check EXCEPT ![s] = d]
  BY Zenon DEF Verdict, d
<1>6. due' \subseteq Sessions
  BY <1>4, Zenon DEF Verdict
<1>7. CASE check' = [check EXCEPT ![s] = NoCheck]
  BY <1>2, <1>6, <1>7, Zenon
<1>8. CASE check' = [check EXCEPT ![s] = d]
  BY <1>3, <1>6, <1>8, Zenon
<1> QED BY <1>5, <1>7, <1>8, Zenon

\* The steps of a check keep Base.
LEMMA CheckBase ==
  ASSUME Base, NEW s \in Sessions,
         (\E o \in Ops : BeginCheck(s, o)) \/ CheckStep(s)
  PROVE  Base'
<1> USE DEF checkVars, ruleVars, flowVars
<1>a. AgentOf[s] \in Agents
  BY AgentOfType, Zenon
<1>b. check[s] \in CheckSet /\ check \in [Sessions -> CheckSet]
  BY Zenon DEF Base, TypeOK, CheckSet
<1>c. file[AgentOf[s]] \in FileSet
  BY <1>a, Zenon DEF Base, TypeOK, FileSet
<1>d. check[s].stat <= file[AgentOf[s]].mtime
  BY Zenon DEF Base, TimeInv
<1>e. request \in [Keys -> {"none", "pending", "denied"}] /\ due \subseteq Sessions
  BY Zenon DEF Base, TypeOK
<1>f. 0 <= file[AgentOf[s]].mtime
  BY <1>c DEF FileSet
<1>1. ASSUME NEW o \in Ops, BeginCheck(s, o) PROVE Base'
  <2> DEFINE c == [check[s] EXCEPT !.at = IF o \in Untrusted THEN "route" ELSE "eval",
       !.op = o]
  <2>1. c \in CheckSet /\ c.stat = check[s].stat
    BY <1>b, Zenon DEF CheckSet
  <2>2. check' = [check EXCEPT ![s] = c]
    BY <1>1, <1>b, Zenon DEF BeginCheck, CheckSet
  <2>3. due' \subseteq Sessions
    BY <1>1, <1>e, Zenon DEF BeginCheck
  <2>4. UNCHANGED <<ruleVars, holder, job, crashes>> /\ request' = request
    BY <1>1, Zenon DEF BeginCheck
  <2> HIDE DEF c
  <2> QED BY <2>1, <2>2, <2>3, <2>4, <1>d, <1>e, CheckFrame, Zenon
<1>2. CASE Lookup(s)
  <2>1. UNCHANGED <<ruleVars, holder, job, crashes>> /\ request' = request
    BY <1>2, Zenon DEF Lookup
  <2>2. CASE IsCached(AgentOf[s])
    <3>1. Verdict(s, cache[AgentOf[s]].rules) /\ check[s].at # "idle"
      BY <1>2, <2>2, Zenon DEF Lookup
    <3>2. PICK c \in CheckSet : c.stat = 0 /\ check' = [check EXCEPT ![s] = c]
      BY <3>1, VerdictType, Zenon
    <3>3. due' \subseteq Sessions
      BY <3>1, VerdictType, Zenon
    <3> QED BY <3>2, <3>3, <2>1, <1>e, <1>f, CheckFrame, Zenon
  <2>3. CASE ~IsCached(AgentOf[s])
    <3> DEFINE c == [check[s] EXCEPT !.at = "stat"]
    <3>1. c \in CheckSet /\ c.stat = check[s].stat
      BY <1>b, Zenon DEF CheckSet
    <3>2. check' = [check EXCEPT ![s] = c] /\ due' = due
      BY <1>2, <2>3, Zenon DEF Lookup
    <3> HIDE DEF c
    <3> QED BY <3>1, <3>2, <2>1, <1>d, <1>e, CheckFrame, Zenon
  <2> QED BY <2>2, <2>3, Zenon
<1>3. CASE LoadStat(s)
  <2> DEFINE c == [check[s] EXCEPT !.at = "text", !.stat = file[AgentOf[s]].mtime]
  <2>1. c \in CheckSet /\ c.stat = file[AgentOf[s]].mtime
    BY <1>b, <1>c, Zenon DEF CheckSet, FileSet
  <2>2. c.stat <= file[AgentOf[s]].mtime
    BY <2>1, <1>c DEF FileSet
  <2>3. check' = [check EXCEPT ![s] = c] /\ due' = due
    BY <1>3, Zenon DEF LoadStat, Reload
  <2>4. UNCHANGED <<ruleVars, holder, job, crashes>> /\ request' = request
    BY <1>3, Zenon DEF LoadStat, Reload
  <2> HIDE DEF c
  <2> QED BY <2>1, <2>2, <2>3, <2>4, <1>e, CheckFrame, Zenon
<1>4. CASE LoadText(s)
  <2> DEFINE c == [check[s] EXCEPT !.at = "insert", !.text = file[AgentOf[s]].rules]
  <2>1. c \in CheckSet /\ c.stat = check[s].stat
    BY <1>b, <1>c, Zenon DEF CheckSet, FileSet
  <2>3. check' = [check EXCEPT ![s] = c] /\ due' = due
    BY <1>4, Zenon DEF LoadText, Reload
  <2>4. UNCHANGED <<ruleVars, holder, job, crashes>> /\ request' = request
    BY <1>4, Zenon DEF LoadText, Reload
  <2> HIDE DEF c
  <2> QED BY <2>1, <2>3, <2>4, <1>d, <1>e, CheckFrame, Zenon
<1>5. CASE Insert(s)
  <2>1. Verdict(s, check[s].text) /\ check[s].at # "idle"
    BY <1>5, Zenon DEF Insert
  <2>2. PICK c \in CheckSet : c.stat = 0 /\ check' = [check EXCEPT ![s] = c]
    BY <2>1, VerdictType, Zenon
  <2>3. due' \subseteq Sessions
    BY <2>1, VerdictType, Zenon
  <2> DEFINE e == [mtime |-> check[s].stat, rules |-> check[s].text, held |-> TRUE]
  <2>4. e \in EntrySet /\ e.mtime = check[s].stat
    BY <1>b, Zenon DEF EntrySet, CheckSet
  <2>5. cache' = [cache EXCEPT ![AgentOf[s]] = e]
    BY <1>5, Zenon DEF Insert
  <2>6. UNCHANGED <<file, granted, request, holder, job, crashes>>
    BY <1>5, Zenon DEF Insert
  <2> HIDE DEF e
  <2>7. check' \in [Sessions -> CheckSet]
    BY <2>2, <1>b, Zenon
  <2>8. cache' \in [Agents -> EntrySet]
    BY <2>4, <2>5, <1>a, Zenon DEF Base, TypeOK, EntrySet
  <2>9. TypeOK'
    BY <2>3, <2>6, <2>7, <2>8, Zenon DEF Base, TypeOK, CheckSet, EntrySet
  <2>10. JobInv' /\ GrantInv'
    BY <2>6, FlowFrame, Zenon DEF Base
  <2>11. \A a \in Agents : cache'[a].mtime <= file[a].mtime
    BY <2>4, <2>5, <1>a, <1>d, Zenon DEF Base, TypeOK, TimeInv
  <2>12. \A r \in Sessions : check'[r].stat <= file[AgentOf[r]].mtime
    BY <2>2, <1>b, <1>f, Zenon DEF Base, TimeInv
  <2>13. TimeInv'
    BY <2>6, <2>11, <2>12, Zenon DEF TimeInv
  <2> QED BY <2>9, <2>10, <2>13, Zenon DEF Base
<1>6. CASE Route(s)
  <2>1. NoCheck \in CheckSet /\ NoCheck.stat = 0
    BY ApprovalConstants DEF NoCheck, CheckSet
  <2>2. check' = [check EXCEPT ![s] = NoCheck] /\ due' \subseteq Sessions
    BY <1>6, <1>e, Zenon DEF Route
  <2>3. request' \in [Keys -> {"none", "pending", "denied"}]
    BY <1>6, <1>e, Zenon DEF Route
  <2>4. UNCHANGED <<ruleVars, holder, job, crashes>>
    BY <1>6, Zenon DEF Route
  <2> QED BY <2>1, <2>2, <2>3, <2>4, <1>f, CheckFrame, Zenon
<1> QED BY <1>1, <1>2, <1>3, <1>4, <1>5, <1>6, Zenon DEF CheckStep

\* What the Owner decides changes requests, and may start a rewrite.
LEMMA OwnerBase ==
  ASSUME Base, NEW k \in Keys,
         \/ ApproveOnce(k) \/ Deny(k) \/ Push(k)
         \/ \E t \in Targets : ApproveWhitelist(k, t)
  PROVE  Base'
<1> USE DEF checkVars, ruleVars
<1>1. ASSUME request' \in [Keys -> {"none", "pending", "denied"}],
             UNCHANGED <<checkVars, ruleVars, holder, job, crashes>>
      PROVE  Base'
  <2>1. TypeOK'
    BY <1>1, Zenon DEF Base, TypeOK
  <2>2. JobInv' /\ GrantInv'
    BY <1>1, FlowFrame, Zenon DEF Base
  <2>3. TimeInv'
    BY <1>1, Zenon DEF Base, TimeInv
  <2> QED BY <2>1, <2>2, <2>3, Zenon DEF Base
<1>2. request \in [Keys -> {"none", "pending", "denied"}]
  BY Zenon DEF Base, TypeOK
<1>3. CASE ApproveOnce(k)
  BY <1>1, <1>2, <1>3, Zenon DEF ApproveOnce
<1>4. CASE Deny(k)
  BY <1>1, <1>2, <1>4, Zenon DEF Deny
<1>5. CASE Push(k)
  BY <1>1, <1>2, <1>5, Zenon DEF Push
<1>6. ASSUME NEW t \in Targets, ApproveWhitelist(k, t) PROVE Base'
  <2> DEFINE a == k[2]
             o == k[3]
             rule == [subject |-> SubjectFor(k[1], t), op |-> o]
  <2>1. a \in Agents /\ o \in Ops /\ o \notin HighRisk
    BY <1>6, KeyParts, Zenon DEF ApproveWhitelist
  <2>2. rule \in Rules
    BY <2>1, NewRule, Zenon
  <2>3. file[a] \in FileSet
    BY <2>1, Zenon DEF Base, TypeOK, FileSet
  <2>4. /\ holder = "free" /\ holder' = "truncate"
        /\ file[a].mtime + 2 <= MaxTime
        /\ UNCHANGED <<checkVars, ruleVars, crashes>>
    BY <1>6, Zenon DEF ApproveWhitelist, Rewrite, Pending
  <2>5. /\ job'.agent = a
        /\ job'.rules = file[a].rules \cup {rule}
        /\ job'.op = IF rule.subject = "agent" THEN o ELSE "none"
    BY <1>6, Zenon DEF ApproveWhitelist, Rewrite, Idle
  <2>6. job' \in JobSet
    <3>1. file[a].rules \cup {rule} \in SUBSET Rules
      BY <2>2, <2>3, Zenon DEF FileSet
    <3>2. job' = [agent |-> a, rules |-> file[a].rules \cup {rule},
                  op |-> IF rule.subject = "agent" THEN o ELSE "none"]
      BY <1>6, Zenon DEF ApproveWhitelist, Rewrite, Idle
    <3> QED BY <3>1, <3>2, <2>1, Zenon DEF JobSet
  <2>7. job'.op \in Ops => Allows(job'.rules, job'.op)
    BY <2>5, ApprovalConstants, Zenon DEF Allows
  <2>8. request' \in [Keys -> {"none", "pending", "denied"}]
    BY <1>6, <1>2, Zenon DEF ApproveWhitelist
  <2> HIDE DEF rule
  <2>9. TypeOK'
    BY <2>4, <2>8, Zenon DEF Base, TypeOK
  <2>10. JobInv'
    BY <2>1, <2>4, <2>5, <2>6, <2>7, Zenon DEF JobInv
  <2>11. GrantInv'
    BY <2>4, Zenon DEF Base, GrantInv, Rewriting
  <2>12. TimeInv'
    BY <2>4, Zenon DEF Base, TimeInv
  <2> QED BY <2>9, <2>10, <2>11, <2>12, Zenon DEF Base
<1> QED BY <1>3, <1>4, <1>5, <1>6, Zenon

\* A rewritten file is later than before, and within the bound.
LEMMA LaterTime ==
  ASSUME NEW t \in 0 .. MaxTime, NEW u \in TimesAfter(t), t + 1 <= MaxTime
  PROVE  u \in 0 .. MaxTime /\ t <= u /\ u <= t + 1 /\ (~CoarseClock => u = t + 1)
  BY ApprovalConstants DEF TimesAfter

\* The steps of the mutex's holder, failing or not, keep Base.
LEMMA HolderBase ==
  ASSUME Base, FlowStep \/ AppendFails
  PROVE  Base'
<1> USE DEF checkVars, ruleVars
<1> DEFINE a == job.agent
<1>a. holder # "free" /\ a \in Agents
  BY Zenon DEF FlowStep, AppendFails, Truncate, Fill, Notify, Base, JobInv
<1>b. file[a] \in FileSet /\ file \in [Agents -> FileSet] /\ job \in JobSet
  BY <1>a, Zenon DEF Base, TypeOK, FileSet, JobInv
<1>c. Idle \in JobSet
  BY Zenon DEF Idle, JobSet
<1>1. ASSUME NEW f \in FileSet, file' = [file EXCEPT ![a] = f], file[a].mtime <= f.mtime,
             UNCHANGED <<check, cache>>
      PROVE  file' \in [Agents -> FileSet] /\ TimeInv'
  <2>1. file' \in [Agents -> FileSet]
    BY <1>1, <1>b, Zenon
  <2>2. \A b \in Agents : file[b].mtime \in Nat /\ f.mtime \in Nat
                          /\ file[b].mtime <= file'[b].mtime /\ file'[b].mtime \in Nat
    BY <1>1, <1>b, ApprovalConstants DEF FileSet
  <2>3. \A b \in Agents : cache[b].mtime <= file'[b].mtime
    BY <2>2 DEF Base, TypeOK, TimeInv
  <2>4. \A s \in Sessions : check[s].stat <= file'[AgentOf[s]].mtime
    BY <2>2, AgentOfType DEF Base, TypeOK, TimeInv
  <2> QED BY <2>1, <2>3, <2>4, <1>1, Zenon DEF TimeInv
<1>2. CASE Truncate
  <2>1. PICK t \in TimesAfter(file[a].mtime) :
             file' = [file EXCEPT ![a] = [mtime |-> t, rules |-> {}]]
    BY <1>2, Zenon DEF Truncate
  <2>2. /\ file[a].mtime \in 0 .. MaxTime /\ file[a].mtime + 2 <= MaxTime
        /\ file[a].mtime + 1 <= MaxTime
    <3>1. file[a].mtime \in 0 .. MaxTime
      BY <1>b, Zenon DEF FileSet
    <3>2. file[a].mtime + 2 <= MaxTime
      BY <1>2, Zenon DEF Truncate, Base, JobInv
    <3> QED BY <3>1, <3>2, ApprovalConstants
  <2>3. t \in 0 .. MaxTime /\ file[a].mtime <= t /\ t <= file[a].mtime + 1
    BY <2>1, <2>2, LaterTime, Zenon
  <2> DEFINE f == [mtime |-> t, rules |-> {}]
  <2>4. f \in FileSet /\ f.mtime = t
    BY <2>3, Zenon DEF FileSet
  <2>5. /\ holder = "truncate" /\ holder' = "fill"
        /\ UNCHANGED <<check, cache, granted, request, job, crashes>>
        /\ due' \subseteq due
    BY <1>2, Zenon DEF Truncate
  <2>6. file' \in [Agents -> FileSet] /\ TimeInv'
    BY <2>1, <2>3, <2>4, <2>5, <1>1, Zenon
  <2>7. TypeOK'
    BY <2>5, <2>6, Zenon DEF Base, TypeOK, FileSet
  <2>8. file'[a].mtime + 1 <= MaxTime
    <3>1. file'[a].mtime = t
      BY <2>1, <1>a, <1>b, Zenon
    <3> QED BY <3>1, <2>2, <2>3, ApprovalConstants
  <2>9. JobInv'
    BY <2>5, <2>8, <1>a, Zenon DEF Base, JobInv
  <2>10. GrantInv'
    <3> SUFFICES ASSUME NEW b \in Agents, NEW o \in granted[b]
                 PROVE IF b = a THEN Allows(job.rules, o) ELSE Allows(file'[b].rules, o)
      BY <2>5, Zenon DEF GrantInv, Rewriting
    <3>1. Allows(file[b].rules, o)
      BY <2>5, Zenon DEF Base, GrantInv, Rewriting
    <3>2. CASE b = a
      BY <3>1, <3>2, <2>5, Zenon DEF Base, JobInv, Allows
    <3>3. CASE b # a
      BY <3>1, <3>3, <2>1, <1>b, Zenon
    <3> QED BY <3>2, <3>3, Zenon
  <2> QED BY <2>6, <2>7, <2>9, <2>10, Zenon DEF Base
<1>3. CASE Fill
  <2>1. PICK t \in TimesAfter(file[a].mtime) :
             file' = [file EXCEPT ![a] = [mtime |-> t, rules |-> job.rules]]
    BY <1>3, Zenon DEF Fill
  <2>2. file[a].mtime \in 0 .. MaxTime /\ file[a].mtime + 1 <= MaxTime
    BY <1>3, <1>b, Zenon DEF FileSet, Fill, Base, JobInv
  <2>3. t \in 0 .. MaxTime /\ file[a].mtime <= t
    BY <2>1, <2>2, LaterTime, Zenon
  <2> DEFINE f == [mtime |-> t, rules |-> job.rules]
  <2>4. f \in FileSet /\ f.mtime = t
    BY <2>3, <1>b, Zenon DEF FileSet, JobSet
  <2>5. /\ holder = "fill" /\ holder' = "notify"
        /\ UNCHANGED <<check, due, cache, request, job, crashes>>
        /\ granted' = [granted EXCEPT ![a] = granted[a] \cup ({job.op} \cap Ops)]
    BY <1>3, Zenon DEF Fill
  <2>6. file' \in [Agents -> FileSet] /\ TimeInv'
    BY <2>1, <2>3, <2>4, <2>5, <1>1, Zenon
  <2>7. granted' \in [Agents -> SUBSET Ops]
    BY <2>5, <1>a, Zenon DEF Base, TypeOK
  <2>8. TypeOK'
    BY <2>5, <2>6, <2>7, Zenon DEF Base, TypeOK, FileSet
  <2>9. JobInv'
    BY <2>5, <1>a, Zenon DEF Base, JobInv
  <2>10. GrantInv'
    <3> SUFFICES ASSUME NEW b \in Agents, NEW o \in granted'[b]
                 PROVE Allows(file'[b].rules, o)
      BY <2>5, Zenon DEF GrantInv, Rewriting
    <3>1. CASE b = a
      <4>1. file'[b].rules = job.rules
        BY <3>1, <2>1, <1>b, Zenon
      <4>2. o \in granted[a] \/ (o = job.op /\ job.op \in Ops)
        BY <3>1, <2>5, <1>a, Zenon DEF Base, TypeOK
      <4>3. Allows(job.rules, o)
        BY <4>2, <2>5, <1>a, Zenon DEF Base, JobInv, GrantInv, Rewriting
      <4> QED BY <4>1, <4>3, Zenon
    <3>2. CASE b # a
      <4>1. file'[b] = file[b] /\ o \in granted[b]
        BY <3>2, <2>1, <2>5, <1>b, Zenon DEF Base, TypeOK
      <4> QED BY <4>1, <3>2, Zenon DEF Base, GrantInv, Rewriting
    <3> QED BY <3>1, <3>2, Zenon
  <2> QED BY <2>6, <2>8, <2>9, <2>10, Zenon DEF Base
<1>4. CASE AppendFails
  <2>1. /\ holder' = "free" /\ job' = Idle
        /\ UNCHANGED <<check, due, cache, file, request, crashes>>
    BY <1>4, Zenon DEF AppendFails
  <2>2. granted' \in [Agents -> SUBSET Ops]
    BY <1>4, Zenon DEF AppendFails, Base, TypeOK
  <2>3. TypeOK' /\ TimeInv'
    BY <2>1, <2>2, Zenon DEF Base, TypeOK, TimeInv
  <2>4. JobInv'
    BY <2>1, <1>c, Zenon DEF JobInv
  <2>5. GrantInv'
    <3> SUFFICES ASSUME NEW b \in Agents, NEW o \in granted'[b]
                 PROVE Allows(file[b].rules, o)
      BY <2>1, Zenon DEF GrantInv, Rewriting
    <3>1. o \in granted[b] /\ ~(holder = "fill" /\ b = a)
      BY <1>4, <1>a, Zenon DEF AppendFails, Base, TypeOK
    <3> QED BY <3>1, Zenon DEF Base, GrantInv, Rewriting
  <2> QED BY <2>3, <2>4, <2>5, Zenon DEF Base
<1>5. CASE Notify
  <2>1. /\ holder = "notify" /\ holder' = "free" /\ job' = Idle
        /\ UNCHANGED <<check, due, file, granted, request, crashes>>
    BY <1>5, Zenon DEF Notify
  <2>2. NoEntry \in EntrySet /\ NoEntry.mtime = 0
    BY ApprovalConstants DEF NoEntry, EntrySet
  <2>3. cache \in [Agents -> EntrySet]
    BY Zenon DEF Base, TypeOK, EntrySet
  <2>4. cache' = cache \/ cache' = [cache EXCEPT ![a] = NoEntry]
    BY <1>5, Zenon DEF Notify
  <2>5. cache' \in [Agents -> EntrySet]
    BY <2>2, <2>3, <2>4, Zenon
  <2>6. TypeOK'
    BY <2>1, <2>5, Zenon DEF Base, TypeOK, EntrySet
  <2>7. \A b \in Agents : cache'[b].mtime <= file[b].mtime
    <3>1. \A b \in Agents : 0 <= file[b].mtime /\ cache[b].mtime <= file[b].mtime
      BY <1>b DEF FileSet, Base, TimeInv
    <3> QED BY <3>1, <2>2, <2>3, <2>4, Zenon
  <2>8. TimeInv'
    BY <2>1, <2>7, Zenon DEF Base, TimeInv
  <2>9. JobInv'
    BY <2>1, <1>c, Zenon DEF JobInv
  <2>10. GrantInv'
    BY <2>1, Zenon DEF Base, GrantInv, Rewriting
  <2> QED BY <2>6, <2>8, <2>9, <2>10, Zenon DEF Base
<1> QED BY <1>2, <1>3, <1>4, <1>5, Zenon DEF FlowStep

\* Clearing the queue and crashing keep Base; a crash mid-rewrite voids grants.
LEMMA EndBase ==
  ASSUME Base, Clear \/ Crash
  PROVE  Base'
<1> USE DEF checkVars, ruleVars
<1>1. CASE Clear
  <2>1. UNCHANGED <<check, due, cache, file, granted, holder, job, crashes>>
    BY <1>1, Zenon DEF Clear
  <2>2. request' \in [Keys -> {"none", "pending", "denied"}]
    BY <1>1, Zenon DEF Clear, Base, TypeOK
  <2>3. TypeOK' /\ TimeInv'
    BY <2>1, <2>2, Zenon DEF Base, TypeOK, TimeInv
  <2>4. JobInv' /\ GrantInv'
    BY <2>1, FlowFrame, Zenon DEF Base
  <2> QED BY <2>3, <2>4, Zenon DEF Base
<1>2. CASE Crash
  <2>1. /\ check' = [s \in Sessions |-> NoCheck] /\ due' = {}
        /\ cache' = [b \in Agents |-> NoEntry]
        /\ request' = [k \in Keys |-> "none"]
        /\ holder' = "free" /\ job' = Idle /\ file' = file
        /\ granted' = [b \in Agents |-> IF Rewriting(b) THEN {} ELSE granted[b]]
    BY <1>2, Zenon DEF Crash
  <2>2. crashes' \in 0 .. MaxCrashes
    BY <1>2, ApprovalConstants DEF Crash, Base, TypeOK
  <2>3. NoCheck \in CheckSet /\ NoCheck.stat = 0
    BY ApprovalConstants DEF NoCheck, CheckSet
  <2>4. NoEntry \in EntrySet /\ NoEntry.mtime = 0
    BY ApprovalConstants DEF NoEntry, EntrySet
  <2>5. granted' \in [Agents -> SUBSET Ops]
    BY <2>1, Zenon DEF Base, TypeOK
  <2>6. TypeOK'
    BY <2>1, <2>2, <2>3, <2>4, <2>5, Zenon DEF Base, TypeOK, CheckSet, EntrySet
  <2>7. Idle \in JobSet
    BY Zenon DEF Idle, JobSet
  <2>8. JobInv'
    BY <2>1, <2>7, Zenon DEF JobInv
  <2>9. TimeInv'
    <3>1. \A b \in Agents : 0 <= file[b].mtime
      BY DEF Base, TypeOK
    <3> QED BY <3>1, <2>1, <2>3, <2>4, AgentOfType, Zenon DEF TimeInv
  <2>10. GrantInv'
    BY <2>1, Zenon DEF Base, GrantInv, Rewriting
  <2> QED BY <2>6, <2>8, <2>9, <2>10, Zenon DEF Base
<1> QED BY <1>1, <1>2, Zenon

\* Every step keeps Base.
LEMMA StepBase == Base /\ [Next]_vars => Base'
<1> SUFFICES ASSUME Base, [Next]_vars PROVE Base'
  OBVIOUS
<1>1. CASE UNCHANGED vars
  BY <1>1, Zenon
       DEF vars, checkVars, ruleVars, flowVars, Base, TypeOK, JobInv, TimeInv, GrantInv,
     Rewriting, Allows
<1>2. CASE \E s \in Sessions : (\E o \in Ops : BeginCheck(s, o)) \/ CheckStep(s)
  BY <1>2, CheckBase, Zenon
<1>3. CASE \E k \in Keys : \/ ApproveOnce(k) \/ Deny(k) \/ Push(k)
                           \/ \E t \in Targets : ApproveWhitelist(k, t)
  BY <1>3, OwnerBase, Zenon
<1>4. CASE FlowStep \/ AppendFails
  BY <1>4, HolderBase, Zenon
<1>5. CASE Clear \/ Crash
  BY <1>5, EndBase, Zenon
<1> QED BY <1>1, <1>2, <1>3, <1>4, <1>5, Zenon DEF Next

(* The state keeps its shape and no rule about an operation of high risk is    *)
(* written, cached or read, although the Owner may ask for one (ApprovalQueue  *)
(* ::approve refuses it).                                                      *)
THEOREM HighRiskIsNeverWhitelisted == Spec => []TypeOK
<1>1. Base => TypeOK
  BY Zenon DEF Base
<1> QED BY InitBase, StepBase, <1>1, PTL DEF Spec

-----------------------------------------------------------------------------
(* A clock that moves with every write.                                      *)

\* Initially nothing is cached and no check runs.
LEMMA InitFine == Init => Fine
  BY DEF Init, Fine, CacheFresh, TextFresh, DueInv, IsCached, NoEntry, NoCheck

\* A time of the past is not the time of the next write.
LEMMA LaterDiffers == \A m, n \in Nat : m <= n => m # n + 1
  OBVIOUS

(* A file that is rewritten gets a time nobody has seen, so that no entry and   *)
(* no text is taken for its new content.                                        *)
LEMMA RewriteFine ==
  ASSUME ~CoarseClock, Base, CacheFresh, TextFresh, Truncate \/ Fill
  PROVE  CacheFresh' /\ TextFresh'
<1> USE DEF checkVars
<1> DEFINE a == job.agent
<1>1. PICK t, r : t \in TimesAfter(file[a].mtime)
                  /\ file' = [file EXCEPT ![a] = [mtime |-> t, rules |-> r]]
  BY Zenon DEF Truncate, Fill
<1>2. UNCHANGED <<check, cache>>
  BY Zenon DEF Truncate, Fill
<1>3. a \in Agents /\ file \in [Agents -> FileSet]
  BY Zenon DEF Truncate, Fill, Base, JobInv, TypeOK, FileSet
<1>4. file[a].mtime \in Nat /\ t = file[a].mtime + 1
  BY <1>1, <1>3, ApprovalConstants DEF FileSet, TimesAfter
<1>5. file'[a].mtime = t /\ \A b \in Agents : b # a => file'[b] = file[b]
  BY <1>1, <1>3, Zenon
<1>6. cache[a].mtime \in Nat /\ cache[a].mtime <= file[a].mtime
  BY <1>3, ApprovalConstants DEF Base, TypeOK, TimeInv
<1>7. cache[a].mtime # file'[a].mtime
  <2>1. file'[a].mtime = file[a].mtime + 1
    BY <1>4, <1>5, Zenon
  <2> QED BY <1>4, <1>6, <2>1, LaterDiffers, Zenon
<1>8. CacheFresh'
  BY <1>2, <1>5, <1>7, Zenon DEF CacheFresh, IsCached
<1>9. ASSUME NEW s \in Sessions, AgentOf[s] = a PROVE check[s].stat # file'[a].mtime
  <2>1. check[s].stat \in Nat /\ check[s].stat <= file[a].mtime
    BY <1>9, ApprovalConstants DEF Base, TypeOK, TimeInv
  <2> QED BY <2>1, <1>4, <1>5
<1>10. TextFresh'
  BY <1>2, <1>5, <1>9, AgentOfType, Zenon DEF TextFresh
<1> QED BY <1>8, <1>10, Zenon

\* Every step keeps the entries and the texts fresh.
LEMMA StepFresh ==
  ASSUME ~CoarseClock, Base, CacheFresh, TextFresh, [Next]_vars
  PROVE  CacheFresh' /\ TextFresh'
<1> USE DEF checkVars, ruleVars, flowVars
<1>a. check \in [Sessions -> CheckSet] /\ cache \in [Agents -> EntrySet]
  BY Zenon DEF Base, TypeOK, CheckSet, EntrySet
<1>1. ASSUME UNCHANGED <<check, cache, file>> PROVE CacheFresh' /\ TextFresh'
  BY <1>1, Zenon DEF CacheFresh, TextFresh, IsCached
<1>2. ASSUME NEW s \in Sessions, NEW c, c.at # "insert", check' = [check EXCEPT ![s] = c],
             file' = file
      PROVE  TextFresh'
  BY <1>2, <1>a, Zenon DEF TextFresh
<1>3. ASSUME UNCHANGED <<cache, file>> PROVE CacheFresh'
  BY <1>3, Zenon DEF CacheFresh, IsCached
<1>4. ASSUME NEW s \in Sessions, NEW rules, Verdict(s, rules),
     file' = file PROVE TextFresh'
  <2>1. NoCheck.at # "insert" /\ Denied(check[s].op).at # "insert"
    BY Zenon DEF NoCheck, Denied
  <2>2. CASE check' = [check EXCEPT ![s] = NoCheck]
    BY <1>2, <1>4, <2>1, <2>2, Zenon
  <2>3. CASE check' = [check EXCEPT ![s] = Denied(check[s].op)]
    BY <1>2, <1>4, <2>1, <2>3, Zenon
  <2> QED BY <1>4, <2>2, <2>3, Zenon DEF Verdict
<1>5. ASSUME NEW s \in Sessions, NEW o \in Ops, BeginCheck(s, o) PROVE CacheFresh' /\ TextFresh'
  <2>1. check'[s].at # "insert" /\ \A r \in Sessions : r # s => check'[r] = check[r]
    BY <1>5, <1>a, Zenon DEF BeginCheck, CheckSet
  <2> QED BY <1>3, <1>5, <2>1, Zenon DEF BeginCheck, TextFresh
<1>6. ASSUME NEW s \in Sessions, Lookup(s) PROVE CacheFresh' /\ TextFresh'
  <2>1. CacheFresh'
    BY <1>3, <1>6, Zenon DEF Lookup
  <2>2. CASE IsCached(AgentOf[s])
    BY <1>4, <1>6, <2>1, <2>2, Zenon DEF Lookup
  <2>3. CASE ~IsCached(AgentOf[s])
    <3>1. check'[s].at # "insert" /\ \A r \in Sessions : r # s => check'[r] = check[r]
      BY <1>6, <1>a, <2>3, Zenon DEF Lookup, CheckSet
    <3> QED BY <1>6, <2>1, <3>1, Zenon DEF Lookup, TextFresh
  <2> QED BY <2>2, <2>3, Zenon
<1>7. ASSUME NEW s \in Sessions, LoadStat(s) PROVE CacheFresh' /\ TextFresh'
  <2>1. check'[s].at # "insert" /\ \A r \in Sessions : r # s => check'[r] = check[r]
    BY <1>7, <1>a, Zenon DEF LoadStat, Reload, CheckSet
  <2> QED BY <1>3, <1>7, <2>1, Zenon DEF LoadStat, Reload, TextFresh
<1>8. ASSUME NEW s \in Sessions, LoadText(s) PROVE CacheFresh' /\ TextFresh'
  <2>1. check'[s].text = file[AgentOf[s]].rules
    BY <1>8, <1>a, Zenon DEF LoadText, Reload, CheckSet
  <2>2. \A r \in Sessions : r # s => check'[r] = check[r]
    BY <1>8, <1>a, Zenon DEF LoadText, Reload
  <2> QED BY <1>3, <1>8, <2>1, <2>2, Zenon DEF LoadText, Reload, TextFresh
<1>9. ASSUME NEW s \in Sessions, Insert(s) PROVE CacheFresh' /\ TextFresh'
  <2> DEFINE a == AgentOf[s]
  <2>1. cache'[a].mtime = check[s].stat /\ cache'[a].rules = check[s].text
    BY <1>9, <1>a, AgentOfType, Zenon DEF Insert
  <2>2. \A b \in Agents : b # a => cache'[b] = cache[b]
    BY <1>9, <1>a, Zenon DEF Insert
  <2>3. file' = file /\ check[s].at = "insert"
    BY <1>9, Zenon DEF Insert
  <2>4. CacheFresh'
    BY <2>1, <2>2, <2>3 DEF CacheFresh, TextFresh, IsCached
  <2>5. TextFresh'
    BY <1>4, <1>9, Zenon DEF Insert
  <2> QED BY <2>4, <2>5, Zenon
<1>10. ASSUME NEW s \in Sessions, Route(s) PROVE CacheFresh' /\ TextFresh'
  <2>1. NoCheck.at # "insert"
    BY Zenon DEF NoCheck
  <2> QED BY <1>2, <1>3, <1>10, <2>1, Zenon DEF Route
<1>11. CASE \E k \in Keys : \/ ApproveOnce(k) \/ Deny(k) \/ Push(k)
                            \/ \E t \in Targets : ApproveWhitelist(k, t)
  BY <1>1, <1>11, Zenon DEF ApproveOnce, Deny, Push, ApproveWhitelist
<1>12. CASE Truncate \/ Fill
  BY <1>12, RewriteFine, Zenon
<1>13. CASE Notify
  <2>1. \/ cache' = cache
        \/ cache' = [cache EXCEPT ![job.agent] = NoEntry]
    BY <1>13, Zenon DEF Notify
  <2>2. ~NoEntry.held
    BY Zenon DEF NoEntry
  <2>3. UNCHANGED <<check, file>>
    BY <1>13, Zenon DEF Notify
  <2>4. \A b \in Agents : cache'[b] = cache[b] \/ ~cache'[b].held
    BY <2>1, <2>2, <1>a, Zenon
  <2>5. CacheFresh'
    BY <2>3, <2>4, Zenon DEF CacheFresh, IsCached
  <2> QED BY <2>3, <2>5, Zenon DEF TextFresh
<1>14. CASE AppendFails \/ Clear
  BY <1>1, <1>14, Zenon DEF AppendFails, Clear
<1>15. CASE Crash
  <2>1. \A b \in Agents : ~cache'[b].held
    BY <1>15, Zenon DEF Crash, NoEntry
  <2>2. \A s \in Sessions : check'[s].at = "idle"
    BY <1>15, Zenon DEF Crash, NoCheck
  <2> QED BY <2>1, <2>2, Zenon DEF CacheFresh, TextFresh, IsCached
<1>16. CASE UNCHANGED vars
  BY <1>1, <1>16, Zenon DEF vars
<1> QED
  BY <1>5, <1>6, <1>7, <1>8, <1>9, <1>10, <1>11, <1>12, <1>13, <1>14, <1>15, <1>16, Zenon
  DEF Next, CheckStep, FlowStep

\* A verdict given on the file's rules never denies a check that is due.
LEMMA VerdictDue ==
  ASSUME Base, DueInv, NEW s \in Sessions, NEW rules, Verdict(s, rules),
         s \in due => Allows(rules, check[s].op), UNCHANGED <<file, holder, job>>
  PROVE  DueInv'
<1>1. check \in [Sessions -> CheckSet] /\ due \subseteq Sessions
  BY Zenon DEF Base, TypeOK, CheckSet
<1>2. s \notin due' /\ due' \subseteq due
  BY Zenon DEF Verdict
<1>3. \A r \in Sessions : r # s => check'[r] = check[r]
  BY <1>1, Zenon DEF Verdict
<1> QED BY <1>1, <1>2, <1>3, Zenon DEF DueInv, Rewriting

\* Every step keeps the promise to the checks that are due.
LEMMA StepDue ==
  ASSUME Base, CacheFresh, DueInv, [Next]_vars
  PROVE  DueInv'
<1> USE DEF checkVars, ruleVars, flowVars
<1>a. /\ check \in [Sessions -> CheckSet] /\ due \subseteq Sessions
      /\ file \in [Agents -> FileSet]
  BY Zenon DEF Base, TypeOK, CheckSet, FileSet
<1>1. ASSUME UNCHANGED <<check, due, file>>,
             (holder' = holder /\ job' = job) \/ holder' # "fill"
      PROVE  DueInv'
  BY <1>1, Zenon DEF DueInv, Rewriting
<1>2. ASSUME NEW s \in Sessions, NEW o \in Ops, BeginCheck(s, o) PROVE DueInv'
  <2>1. /\ check'[s].at = (IF o \in Untrusted THEN "route" ELSE "eval") /\ check'[s].op = o
        /\ \A r \in Sessions : r # s => check'[r] = check[r]
    BY <1>2, <1>a, Zenon DEF BeginCheck, CheckSet
  <2>2. UNCHANGED <<file, holder, job>>
    BY <1>2, Zenon DEF BeginCheck
  <2>3. s \notin due
    BY <1>2, Zenon DEF BeginCheck, DueInv
  <2>4. \A r \in due' : r # s => r \in due
    BY <1>2, Zenon DEF BeginCheck
  <2>5. s \in due' => /\ o \in granted[AgentOf[s]] /\ o \notin Untrusted
                      /\ ~Rewriting(AgentOf[s])
    BY <1>2, <2>3, Zenon DEF BeginCheck
  <2>6. s \in due' => Allows(file[AgentOf[s]].rules, o)
    BY <2>5, AgentOfType, Zenon DEF Base, GrantInv
  <2>7. ASSUME NEW r \in due', r # s
        PROVE  /\ check'[r].at \in {"eval", "stat", "text", "insert"}
               /\ ~Rewriting(AgentOf[r])'
               /\ Allows(file'[AgentOf[r]].rules, check'[r].op)
               /\ check'[r].at = "insert" => Allows(check'[r].text, check'[r].op)
    BY <2>1, <2>2, <2>4, <2>7, <1>a, Zenon DEF DueInv, Rewriting
  <2>8. ASSUME s \in due'
        PROVE  /\ check'[s].at = "eval" /\ ~Rewriting(AgentOf[s])'
               /\ Allows(file'[AgentOf[s]].rules, check'[s].op)
    BY <2>1, <2>2, <2>5, <2>6, <2>8, Zenon DEF Rewriting
  <2> QED BY <2>7, <2>8, Zenon DEF DueInv
<1>3. ASSUME NEW s \in Sessions, Lookup(s) PROVE DueInv'
  <2>1. UNCHANGED <<file, holder, job>> /\ check[s].at = "eval"
    BY <1>3, Zenon DEF Lookup
  <2>2. CASE IsCached(AgentOf[s])
    <3>1. s \in due => Allows(cache[AgentOf[s]].rules, check[s].op)
      BY <2>2, AgentOfType, Zenon DEF CacheFresh, DueInv
    <3> QED BY <1>3, <2>1, <2>2, <3>1, VerdictDue, Zenon DEF Lookup
  <2>3. CASE ~IsCached(AgentOf[s])
    <3>1. /\ check'[s].at = "stat" /\ check'[s].op = check[s].op
          /\ \A r \in Sessions : r # s => check'[r] = check[r]
          /\ due' = due
      BY <1>3, <1>a, <2>3, Zenon DEF Lookup, CheckSet
    <3> QED BY <2>1, <3>1, <1>a, Zenon DEF DueInv, Rewriting
  <2> QED BY <2>2, <2>3, Zenon
<1>4. ASSUME NEW s \in Sessions, LoadStat(s) PROVE DueInv'
  <2>1. /\ check'[s].at = "text" /\ check'[s].op = check[s].op
        /\ \A r \in Sessions : r # s => check'[r] = check[r]
    BY <1>4, <1>a, Zenon DEF LoadStat, Reload, CheckSet
  <2>2. UNCHANGED <<due, file, holder, job>>
    BY <1>4, Zenon DEF LoadStat, Reload
  <2> QED BY <2>1, <2>2, <1>a, Zenon DEF DueInv, Rewriting
<1>5. ASSUME NEW s \in Sessions, LoadText(s) PROVE DueInv'
  <2>1. /\ check'[s].at = "insert" /\ check'[s].op = check[s].op
        /\ check'[s].text = file[AgentOf[s]].rules
        /\ \A r \in Sessions : r # s => check'[r] = check[r]
    BY <1>5, <1>a, Zenon DEF LoadText, Reload, CheckSet
  <2>2. UNCHANGED <<due, file, holder, job>>
    BY <1>5, Zenon DEF LoadText, Reload
  <2> QED BY <2>1, <2>2, <1>a, Zenon DEF DueInv, Rewriting
<1>6. ASSUME NEW s \in Sessions, Insert(s) PROVE DueInv'
  <2>1. Verdict(s, check[s].text) /\ UNCHANGED <<file, holder, job>>
    BY <1>6, Zenon DEF Insert
  <2>2. s \in due => Allows(check[s].text, check[s].op)
    BY <1>6, Zenon DEF Insert, DueInv
  <2> QED BY <2>1, <2>2, VerdictDue, Zenon
<1>7. ASSUME NEW s \in Sessions, Route(s) PROVE DueInv'
  <2>1. /\ due' = due \ {s} /\ UNCHANGED <<file, holder, job>>
        /\ \A r \in Sessions : r # s => check'[r] = check[r]
    BY <1>7, <1>a, Zenon DEF Route
  <2> QED BY <2>1, <1>a, Zenon DEF DueInv, Rewriting
<1>8. CASE \E k \in Keys : \/ ApproveOnce(k) \/ Deny(k) \/ Push(k)
                           \/ \E t \in Targets : ApproveWhitelist(k, t)
  BY <1>1, <1>8, Zenon DEF ApproveOnce, Deny, Push, ApproveWhitelist, Rewrite
<1>9. CASE Truncate
  <2>1. /\ \A b \in Agents : b # job.agent => file'[b] = file[b]
        /\ due' = {s \in due : AgentOf[s] # job.agent} /\ UNCHANGED <<check, job>>
    BY <1>9, <1>a, Zenon DEF Truncate
  <2> QED BY <2>1, <1>a, AgentOfType, Zenon DEF DueInv, Rewriting
<1>10. CASE Fill
  <2>1. /\ \A b \in Agents : b # job.agent => file'[b] = file[b]
        /\ UNCHANGED <<check, due, job>> /\ holder = "fill" /\ holder' # "fill"
    BY <1>10, <1>a, Zenon DEF Fill
  <2> QED BY <2>1, <1>a, AgentOfType, Zenon DEF DueInv, Rewriting
<1>11. CASE Notify \/ AppendFails \/ Clear
  BY <1>1, <1>11, Zenon DEF Notify, AppendFails, Clear
<1>12. CASE Crash
  BY <1>12, Zenon DEF Crash, DueInv
<1>13. CASE UNCHANGED vars
  BY <1>1, <1>13, Zenon DEF vars
<1> QED
  BY <1>2, <1>3, <1>4, <1>5, <1>6, <1>7, <1>8, <1>9, <1>10, <1>11, <1>12, <1>13, Zenon
  DEF Next, CheckStep, FlowStep

\* Base and Fine hold always, when the clock moves with every write.
LEMMA FineAlways == ASSUME ~CoarseClock PROVE Spec => [](Base /\ Fine)
<1>1. Init => Base /\ Fine
  BY InitBase, InitFine, Zenon
<1>2. Base /\ Fine /\ [Next]_vars => (Base /\ Fine)'
  BY StepBase, StepFresh, StepDue, Zenon DEF Fine
<1> QED BY <1>1, <1>2, PTL DEF Spec

(* A cached entry of the file's modification time has the file's rules,        *)
(* although the file is rewritten in place under readers and the callback of   *)
(* the whitelist may skip the invalidation (AgentRuleStore::get_or_load).      *)
THEOREM EntryIsFresh == ASSUME ~CoarseClock PROVE Spec => []CacheFresh
<1>1. Base /\ Fine => CacheFresh
  BY Zenon DEF Fine
<1> QED BY FineAlways, <1>1, PTL

(* Every operation whitelisted for an agent is in force for the agent's next   *)
(* check unless its file is being rewritten (append_rule, whitelist_cb).       *)
THEOREM GrantsAreInForce == ASSUME ~CoarseClock PROVE Spec => []GrantInForce
<1>1. Base /\ Fine => GrantInForce
  BY Zenon DEF Base, Fine, GrantInv, CacheFresh, GrantInForce, RulesInForce
<1> QED BY FineAlways, <1>1, PTL

(* A check that began after its operation was whitelisted does not reach the   *)
(* approval flow unless the agent's file was rewritten under it (evaluate,     *)
(* route_denial_core).                                                         *)
THEOREM GrantsAreNotAsked == ASSUME ~CoarseClock PROVE Spec => []GrantedIsNotAsked
<1>1. Base /\ Fine => GrantedIsNotAsked
  BY Zenon DEF Fine, DueInv, GrantedIsNotAsked
<1> QED BY FineAlways, <1>1, PTL

-----------------------------------------------------------------------------
(* Registration: another use of the flow's mutex, with a state of its own.     *)

\* Who is being registered has been approved.
OneApproval == RegistrationTypeOK /\ approving \subseteq approved

\* What the file holds once the job that is there has been done.
Settled(U) ==
  \/ writes = {} /\ users = U
  \/ \E w \in Jobs : writes = {w} /\ w.users = U /\ (w.open => users = {})

\* Undisturbed, at most one write is outstanding, and the registry it leaves and
\* the approval in progress make up what was approved.
SerialInv ==
  serial =>
    /\ stage # "register" => \E U \in SUBSET Senders : Settled(U) /\ U \cup approving = approved
    /\ stage = "register" => writes = {} /\ users = found /\ found \cup approving = approved

RegInv == OneApproval /\ OnlyApprovedRegistered /\ SerialInv

\* The registry of a gateway that starts is empty.
LEMMA RegInit ==
  ASSUME RegistrationInit
  PROVE  RegInv
<1>1. OneApproval
  BY RegistrationConstants
       DEF RegistrationConstants, RegistrationInit, OneApproval, RegistrationTypeOK
<1>2. OnlyApprovedRegistered
  BY Zenon DEF RegistrationInit, OnlyApprovedRegistered
<1>3. Settled({})
  BY Zenon DEF RegistrationInit, Settled
<1> QED BY <1>1, <1>2, <1>3, Zenon DEF RegistrationInit, RegInv, SerialInv

LEMMA RegStep ==
  ASSUME RegInv, [RegistrationNext]_registrationVars
  PROVE  RegInv'
<1>t. OneApproval /\ OnlyApprovedRegistered /\ SerialInv
  BY Zenon DEF RegInv
<1>s. \A U : UNCHANGED <<users, writes>> => (Settled(U) => Settled(U)')
  BY Zenon DEF Settled
<1>1. ASSUME NEW u \in Senders, GateRead(u) \/ GateSubmit(u) \/ DenyUser(u)
      PROVE  RegInv'
  <2>1. UNCHANGED <<approving, stage, found, users, writes, approved, serial, outages>>
    BY <1>1, Zenon DEF GateRead, GateSubmit, DenyUser
  <2>2. OneApproval'
    BY <1>1, <1>t, <2>1, Zenon
         DEF GateRead, GateSubmit, DenyUser, OneApproval, RegistrationTypeOK
  <2>3. OnlyApprovedRegistered'
    BY <1>t, <2>1, Zenon DEF OnlyApprovedRegistered
  <2>4. SerialInv'
    BY <1>s, <1>t, <2>1, Zenon DEF SerialInv
  <2> QED BY <2>2, <2>3, <2>4, Zenon DEF RegInv
<1>2. ASSUME NEW u \in Senders, ApproveUser(u)
      PROVE  RegInv'
  <2>1. /\ stage = "free" /\ stage' = "read" /\ approving' = {u} /\ approved' = approved \cup {u}
        /\ asks' = asks \ {u} /\ UNCHANGED <<gate, found, users, writes, serial, outages>>
    BY <1>2, Zenon DEF ApproveUser
  <2>2. OneApproval'
    BY <1>t, <2>1, Zenon DEF OneApproval, RegistrationTypeOK
  <2>3. OnlyApprovedRegistered'
    BY <1>t, <2>1, Zenon DEF OnlyApprovedRegistered
  <2>4. ASSUME serial
        PROVE  \E U \in SUBSET Senders : Settled(U)' /\ U \cup approving' = approved'
    <3>1. PICK U \in SUBSET Senders : Settled(U) /\ U \cup approving = approved
      BY <1>t, <2>1, <2>4, Zenon DEF SerialInv
    <3>2. U = approved
      BY <1>t, <2>1, <3>1, Zenon DEF OneApproval, RegistrationTypeOK
    <3> QED BY <1>s, <2>1, <3>1, <3>2, Zenon
  <2>5. SerialInv'
    BY <2>1, <2>4, Zenon DEF SerialInv
  <2> QED BY <2>2, <2>3, <2>5, Zenon DEF RegInv
<1>3. CASE ReadRegistry
  <2>1. /\ stage = "read" /\ stage' = "register" /\ found' = users
        /\ serial' = (serial /\ writes = {})
        /\ UNCHANGED <<gate, asks, approving, users, writes, approved, outages>>
    BY <1>3, Zenon DEF ReadRegistry
  <2>2. OneApproval'
    BY <1>t, <2>1, Zenon DEF OneApproval, RegistrationTypeOK
  <2>3. OnlyApprovedRegistered'
    BY <1>t, <2>1, Zenon DEF OnlyApprovedRegistered
  <2>4. ASSUME serial, writes = {} PROVE users \cup approving = approved
    BY <1>t, <2>1, <2>4, Zenon DEF SerialInv, Settled
  <2>5. SerialInv'
    BY <2>1, <2>4, Zenon DEF SerialInv
  <2> QED BY <2>2, <2>3, <2>5, Zenon DEF RegInv
<1>4. CASE Register
  <2> DEFINE j == [users |-> found \cup approving, open |-> FALSE]
  <2>1. /\ stage = "register" /\ stage' = "free" /\ found' = {} /\ approving' = {}
        /\ writes' = IF approving \subseteq found THEN writes ELSE writes \cup {j}
        /\ UNCHANGED <<gate, asks, users, approved, serial, outages>>
    BY <1>4, Zenon DEF Register
  <2>2. j \in Jobs /\ j.users = found \cup approving /\ ~ j.open
    BY <1>t, Zenon DEF OneApproval, RegistrationTypeOK, Jobs
  <2> HIDE DEF j
  <2>3. OneApproval'
    BY <1>t, <2>1, <2>2, Zenon DEF OneApproval, RegistrationTypeOK
  <2>4. OnlyApprovedRegistered'
    <3>1. j.users \subseteq approved
      BY <1>t, <2>2, Zenon DEF OneApproval, RegistrationTypeOK, OnlyApprovedRegistered
    <3>2. \A w \in writes' : w.users \subseteq approved
      BY <1>t, <2>1, <3>1, Zenon DEF OnlyApprovedRegistered
    <3> QED BY <1>t, <2>1, <3>2 DEF OnlyApprovedRegistered
  <2>5. ASSUME serial
        PROVE  Settled(approved)'
    <3>1. writes = {} /\ users = found /\ found \cup approving = approved
      BY <1>t, <2>1, <2>5, Zenon DEF SerialInv
    <3>2. CASE approving \subseteq found
      BY <2>1, <3>1, <3>2, Zenon DEF Settled
    <3>3. CASE ~ (approving \subseteq found)
      BY <2>1, <2>2, <3>1, <3>3, Zenon DEF Settled
    <3> QED BY <3>2, <3>3, Zenon
  <2>6. approved \in SUBSET Senders
    BY <1>t, Zenon DEF OneApproval, RegistrationTypeOK
  <2>7. SerialInv'
    BY <2>1, <2>5, <2>6, Zenon DEF SerialInv
  <2> QED BY <2>3, <2>4, <2>7, Zenon DEF RegInv
<1>5. ASSUME NEW w \in Jobs, OpenRegistry(w)
      PROVE  RegInv'
  <2> DEFINE j == [w EXCEPT !.open = TRUE]
  <2>1. /\ w \in writes /\ ~ w.open /\ users' = {} /\ writes' = (writes \ {w}) \cup {j}
        /\ UNCHANGED <<gate, asks, approving, stage, found, approved, serial, outages>>
    BY <1>5, Zenon DEF OpenRegistry
  <2>2. j \in Jobs /\ j.users = w.users /\ j.open
    BY Zenon DEF Jobs
  <2> HIDE DEF j
  <2>3. OneApproval'
    BY <1>t, <2>1, <2>2, Zenon DEF OneApproval, RegistrationTypeOK
  <2>4. OnlyApprovedRegistered'
    <3>1. \A x \in writes' : x.users \subseteq approved
      BY <1>t, <2>1, <2>2, Zenon DEF OnlyApprovedRegistered
    <3> QED BY <1>t, <2>1, <3>1 DEF OnlyApprovedRegistered
  <2>5. SerialInv'
    <3>1. \A U : Settled(U) => Settled(U)'
      <4> SUFFICES ASSUME NEW U, Settled(U) PROVE Settled(U)'
        OBVIOUS
      <4>1. writes = {w} /\ w.users = U
        BY <2>1, Zenon DEF Settled
      <4> QED BY <2>1, <2>2, <4>1, Zenon DEF Settled
    <3> QED BY <1>t, <2>1, <3>1, Zenon DEF SerialInv
  <2> QED BY <2>3, <2>4, <2>5, Zenon DEF RegInv
<1>6. ASSUME NEW w \in Jobs, FillRegistry(w)
      PROVE  RegInv'
  <2>1. /\ w \in writes /\ w.open /\ writes' = writes \ {w}
        /\ users' = w.users \/ (users # {} /\ users' = {})
        /\ UNCHANGED <<gate, asks, approving, stage, found, approved, serial, outages>>
    BY <1>6, Zenon DEF FillRegistry
  <2>2. w.users \subseteq Senders /\ w.users \subseteq approved
    BY <1>t, <2>1, Zenon DEF OnlyApprovedRegistered, Jobs
  <2>3. OneApproval'
    BY <1>t, <2>1, <2>2, Zenon DEF OneApproval, RegistrationTypeOK
  <2>4. OnlyApprovedRegistered'
    BY <1>t, <2>1, <2>2, Zenon DEF OnlyApprovedRegistered
  <2>5. SerialInv'
    <3>1. \A U : Settled(U) => Settled(U)'
      BY <2>1, Zenon DEF Settled
    <3> QED BY <1>t, <2>1, <3>1, Zenon DEF SerialInv
  <2> QED BY <2>3, <2>4, <2>5, Zenon DEF RegInv
<1>7. ASSUME NEW w \in Jobs, WriteFails(w)
      PROVE  RegInv'
  <2>1. writes' = writes \ {w} /\ serial' = FALSE
        /\ UNCHANGED <<gate, asks, approving, stage, found, users, approved, outages>>
    BY <1>7, Zenon DEF WriteFails
  <2> QED BY <1>t, <2>1, Zenon
       DEF RegInv, OneApproval, RegistrationTypeOK, OnlyApprovedRegistered, SerialInv
<1>8. CASE RegistryCrash
  <2>1. /\ stage' = "free" /\ approving' = {} /\ found' = {} /\ writes' = {} /\ asks' = {}
        /\ gate' = [u \in Senders |-> "idle"] /\ UNCHANGED <<users, approved>>
        /\ outages < MaxOutages /\ outages' = outages + 1
        /\ serial' = (serial /\ writes = {} /\ stage = "free")
    BY <1>8, Zenon DEF RegistryCrash
  <2>2. outages' \in 0 .. MaxOutages
    BY <1>t, <2>1, RegistrationConstants
         DEF RegistrationConstants, OneApproval, RegistrationTypeOK
  <2>3. OneApproval'
    BY <1>t, <2>1, <2>2, Zenon DEF OneApproval, RegistrationTypeOK
  <2>4. OnlyApprovedRegistered'
    BY <1>t, <2>1, Zenon DEF OnlyApprovedRegistered
  <2>5. ASSUME serial, writes = {}, stage = "free"
        PROVE  \E U \in SUBSET Senders : Settled(U)' /\ U = approved
    BY <1>t, <2>1, <2>5, Zenon DEF SerialInv, Settled, OneApproval, RegistrationTypeOK
  <2>6. SerialInv'
    BY <2>1, <2>5, Zenon DEF SerialInv
  <2> QED BY <2>3, <2>4, <2>6, Zenon DEF RegInv
<1>9. CASE UNCHANGED registrationVars
  <2>1. SerialInv'
    BY <1>s, <1>t, <1>9, Zenon DEF SerialInv, registrationVars
  <2> QED BY <1>t, <1>9, <2>1, Zenon
       DEF RegInv, OneApproval, RegistrationTypeOK, OnlyApprovedRegistered, registrationVars
<1> QED
  BY <1>1, <1>2, <1>3, <1>4, <1>5, <1>6, <1>7, <1>8, <1>9, Zenon DEF RegistrationNext

LEMMA RegAlways == RegistrationSpec => []RegInv
<1>1. RegistrationInit => RegInv
  BY RegInit, Zenon
<1>2. RegInv /\ [RegistrationNext]_registrationVars => RegInv'
  BY RegStep, Zenon
<1> QED BY <1>1, <1>2, PTL DEF RegistrationSpec

(* The shape of the state: the flow's mutex is held for one sender at a time,  *)
(* and only while a request of that sender is approved (approve_request).      *)
THEOREM OneApprovalAtATime == RegistrationSpec => []RegistrationTypeOK
<1>1. RegInv => RegistrationTypeOK
  BY Zenon DEF RegInv, OneApproval
<1> QED BY <1>1, RegAlways, PTL

(* However the detached writes of users.json overlap, fail or are cut short by *)
(* a crash, no one is in the registry whom the Owner did not approve           *)
(* (register_approved_user).                                                   *)
THEOREM OnlyApprovedAreRegistered == RegistrationSpec => []OnlyApprovedRegistered
<1>1. RegInv => OnlyApprovedRegistered
  BY Zenon DEF RegInv
<1> QED BY <1>1, RegAlways, PTL

(* When no approval overlapped the write of another, no write failed and no    *)
(* crash fell between, the registry is exactly what the Owner approved.        *)
THEOREM SerialApprovalsAreRegistered == RegistrationSpec => []SerialApprovalsRegister
<1>1. RegInv => SerialApprovalsRegister
  BY Zenon DEF RegInv, SerialInv, Settled, SerialApprovalsRegister, OneApproval,
       RegistrationTypeOK
<1> QED BY <1>1, RegAlways, PTL
=============================================================================
