----------------------------- MODULE Registration -----------------------------
(* The registration of new users.  Every message passes a gate that reads      *)
(* users.json; a sender it does not find gets a registration request, which    *)
(* the Owner approves or denies.  Approving takes the approval flow's mutex,    *)
(* waits for a blocking read of the registry, adds the user, and hands the new  *)
(* registry to a detached blocking job; the mutex is released before the job    *)
(* has run.  The job rewrites the file in place, so it is empty for a while,    *)
(* and jobs run in any order.                                                   *)
(*                                                                              *)
(* Data: a user is a model value, the registry the set of users in the file; a  *)
(* file that is missing, empty or broken reads as the empty set.                *)
EXTENDS Naturals, FiniteSets

CONSTANTS Senders,     \* people unknown to the gateway at first
          DiskFails,   \* whether a write may fail
          MaxWrites,   \* bound: detached writes outstanding when one is approved
          MaxOutages   \* bound: crashes

ASSUME RegistrationConstants ==
  DiskFails \in BOOLEAN /\ MaxWrites \in Nat /\ MaxOutages \in Nat

VARIABLES gate,        \* sender -> idle, or found unknown and about to ask
          asks,        \* senders with a pending request
          approving,   \* the sender the mutex's holder approves: a set, empty when free
          stage,       \* what that holder does next
          found,       \* the registry it read
          users,       \* users.json
          writes,      \* detached jobs: the registry to write, and if it is open
          approved,    \* history: senders the Owner approved
          serial,      \* history: no registration was disturbed
          outages

registrationVars ==
  <<gate, asks, approving, stage, found, users, writes, approved, serial, outages>>

Jobs == [users : SUBSET Senders, open : BOOLEAN]

\* The gate reads the registry and lets a registered sender pass.
GateRead(u) ==
  /\ gate[u] = "idle" /\ u \notin users
  /\ gate' = [gate EXCEPT ![u] = "ask"]
  /\ UNCHANGED <<asks, approving, stage, found, users, writes, approved, serial, outages>>

(* The request is queued unless the sender has one; either way the message     *)
(* goes no further.                                                            *)
GateSubmit(u) ==
  /\ gate[u] = "ask" /\ stage = "free"
  /\ gate' = [gate EXCEPT ![u] = "idle"]
  /\ asks' = asks \cup {u}
  /\ UNCHANGED <<approving, stage, found, users, writes, approved, serial, outages>>

\* An approval removes the request and starts the read of the registry.
ApproveUser(u) ==
  /\ stage = "free" /\ u \in asks
  /\ Cardinality(writes) <= MaxWrites
  /\ asks' = asks \ {u}
  /\ approved' = approved \cup {u}
  /\ stage' = "read" /\ approving' = {u}
  /\ UNCHANGED <<gate, found, users, writes, serial, outages>>

DenyAndRegister(u) ==
  /\ stage = "free" /\ u \in asks
  /\ asks' = asks \ {u}
  /\ stage' = "read" /\ approving' = {u}
  /\ UNCHANGED <<gate, found, users, writes, approved, serial, outages>>

\* A denial removes the request and nothing else.
DenyUser(u) ==
  /\ stage = "free" /\ u \in asks
  /\ asks' = asks \ {u}
  /\ UNCHANGED <<gate, approving, stage, found, users, writes, approved, serial, outages>>

\* The registry is read while the mutex is held.
ReadRegistryAnew ==
  /\ stage = "read"
  /\ found' = {} /\ stage' = "register"
  /\ serial' = (serial /\ writes = {})
  /\ UNCHANGED <<gate, asks, approving, users, writes, approved, outages>>

ReadRegistry ==
  /\ stage = "read"
  /\ found' = users /\ stage' = "register"
  /\ serial' = (serial /\ writes = {})
  /\ UNCHANGED <<gate, asks, approving, users, writes, approved, outages>>

(* A user found in the registry is left alone; otherwise a detached job gets   *)
(* the registry with the user added.  The mutex is released.  The user's       *)
(* initial rules are an empty list, written to a file that no check reads.     *)
RegisterAwaitsWrite ==
  /\ stage = "register" /\ approving \subseteq users
  /\ stage' = "free" /\ approving' = {} /\ found' = {}
  /\ UNCHANGED <<gate, asks, users, writes, approved, serial, outages>>

RegisterStale ==
  /\ stage = "register"
  /\ writes' = IF approving \subseteq found THEN writes
               ELSE writes \cup {[users |-> found \cup approving, open |-> FALSE]}
  /\ stage' = "free" /\ found' = {}
  /\ UNCHANGED <<gate, asks, approving, users, approved, serial, outages>>

Register ==
  /\ stage = "register"
  /\ writes' = IF approving \subseteq found THEN writes
               ELSE writes \cup {[users |-> found \cup approving, open |-> FALSE]}
  /\ stage' = "free" /\ approving' = {} /\ found' = {}
  /\ UNCHANGED <<gate, asks, users, approved, serial, outages>>

\* A detached job opens the registry, which truncates it ...
OpenRegistry(w) ==
  /\ w \in writes /\ ~w.open
  /\ users' = {}
  /\ writes' = (writes \ {w}) \cup {[w EXCEPT !.open = TRUE]}
  /\ UNCHANGED <<gate, asks, approving, stage, found, approved, serial, outages>>

(* ... and writes it.  Two jobs that both opened it write over each other from *)
(* its start: the second registry is left, or text that does not parse.        *)
FillRegistry(w) ==
  /\ w \in writes /\ w.open
  /\ users' \in {w.users} \cup (IF users = {} THEN {} ELSE {{}})
  /\ writes' = writes \ {w}
  /\ UNCHANGED <<gate, asks, approving, stage, found, approved, serial, outages>>

\* A failing write is logged; the sender stays approved and unregistered.
WriteFails(w) ==
  /\ DiskFails /\ w \in writes
  /\ writes' = writes \ {w}
  /\ serial' = FALSE
  /\ UNCHANGED <<gate, asks, approving, stage, found, users, approved, outages>>

\* A crash forgets everything but the file, which stays as it is.
RegistryCrash ==
  /\ outages < MaxOutages
  /\ outages' = outages + 1
  /\ gate' = [u \in Senders |-> "idle"]
  /\ asks' = {} /\ approving' = {} /\ stage' = "free" /\ found' = {} /\ writes' = {}
  /\ serial' = (serial /\ writes = {} /\ stage = "free")
  /\ UNCHANGED <<users, approved>>

RegistrationInit ==
  /\ gate = [u \in Senders |-> "idle"]
  /\ asks = {} /\ approving = {} /\ stage = "free" /\ found = {}
  /\ users = {} /\ writes = {}
  /\ approved = {} /\ serial = TRUE /\ outages = 0

RegistrationNext ==
  \/ \E u \in Senders : GateRead(u) \/ GateSubmit(u) \/ ApproveUser(u) \/ DenyUser(u)
  \/ ReadRegistry \/ Register
  \/ \E w \in Jobs : OpenRegistry(w) \/ FillRegistry(w) \/ WriteFails(w)
  \/ RegistryCrash

\* Tasks and blocking jobs the runtime has started are run to their end.
RegistrationSpec ==
  /\ RegistrationInit /\ [][RegistrationNext]_registrationVars
  /\ WF_registrationVars(ReadRegistry \/ Register)
  /\ \A w \in Jobs : WF_registrationVars(OpenRegistry(w) \/ FillRegistry(w))

-----------------------------------------------------------------------------
(* Properties.                                                               *)

\* The shape of the state; an approval in progress has exactly one sender.
RegistrationTypeOK ==
  /\ gate \in [Senders -> {"idle", "ask"}]
  /\ asks \subseteq Senders /\ users \subseteq Senders /\ found \subseteq Senders
  /\ approved \subseteq Senders /\ approving \subseteq Senders
  /\ stage \in {"free", "read", "register"}
  /\ IF stage = "free" THEN approving = {} ELSE \E u \in Senders : approving = {u}
  /\ writes \subseteq Jobs /\ serial \in BOOLEAN
  /\ outages \in 0 .. MaxOutages

(* Only senders the Owner approved are ever in the registry, in a job that     *)
(* will write it or in what an approval read, however the writes overlap,      *)
(* fail or are cut short by a crash.                                           *)
OnlyApprovedRegistered ==
  users \cup found \cup UNION {w.users : w \in writes} \subseteq approved

(* When no approval overlapped the detached write of another, no write failed  *)
(* and no crash fell between, the registry ends up with exactly the senders    *)
(* the Owner approved.                                                         *)
SerialApprovalsRegister ==
  serial /\ writes = {} /\ stage = "free" => users = approved

(* An approved sender is registered in the end unless the registration was     *)
(* disturbed: the detached write nobody waits for is done.                     *)
SerialApprovalSettles == \A u \in Senders : u \in approved ~> (u \in users \/ ~serial)

(* "For user creation requests, the user is registered" (approve_request):     *)
(* a sender the Owner approved is in the registry in the end.                  *)
ApprovedIsRegistered == \A u \in Senders : u \in approved ~> u \in users
===============================================================================
