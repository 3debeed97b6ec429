SPECIFICATION FairSpec
CONSTANTS
  gateway = gateway
  credentials = credentials
  accounts = accounts
  Sections = {gateway, credentials, accounts}
  NoSection = none
  Gateway = gateway
  Credentials = {credentials}
  Accounts = {accounts}
  Sessions = {s1}
  RestartCap = 1
  AdminCap = 1
  MaxEdits = 2
  MaxCommands = 1
INVARIANTS StagedIsUnderway GatewayMatchesRuntime
PROPERTIES RuntimeNeverGoesBack WokenWatchdogExecutes
