SPECIFICATION CredentialsSpec
CONSTANTS
  Accounts = {"imap", "gmail"}
  KindOf <- MCKindOf
  Clients = {"tui", "worker"}
  None = None
  MaxCalls = 3
  MaxTokens = 2
  CredentialScenarios <- MCCredentialScenarios
PROPERTIES StoreImplemented RequestsAnswered
CHECK_DEADLOCK FALSE
