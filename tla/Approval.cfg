\* Two sessions of one agent, two ordinary operations, one untrusted command.
CONSTANTS
  s1 = s1
  s2 = s2
  a1 = a1
  u1 = u1
  NoUser = NoUser
  Sessions = {s1, s2}
  Ops = {r1, r2, x}
  Untrusted = {x}
  HighRisk = {x}
  AgentOf <- MCAgentOf
  SenderOf <- MCSenderOf
  SubAgents = {s2}
  CoarseClock = FALSE
  Targets = {"agent", "auto"}
  MaxTime = 4
  MaxCrashes = 1
SPECIFICATION Spec
INVARIANTS TypeOK CacheFresh GrantInForce GrantedIsNotAsked
