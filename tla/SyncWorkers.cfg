SPECIFICATION FairSpec
CONSTANTS
  Accounts = {"me"}
  Keys = {"inbox"}
  AccountOf <- MCAccountOf
  HasIdle = TRUE
  InitialBackoff = 1
  MaxBackoff = 2
  MaxTasks = 2
  Servers <- MCServers
INVARIANTS
  NoOrphan
  NoSilentDeath
PROPERTIES
  NewMailSynced
  ShutdownCompletes
CHECK_DEADLOCK FALSE
