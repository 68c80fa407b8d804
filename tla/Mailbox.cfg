SPECIFICATION MailboxSpec
CONSTANTS
  Accounts = {"a", "b"}
  FoldersOf <- MCFoldersOf
  Inbox <- MCInbox
  Trash <- MCTrash
  Archive <- MCArchive
  Msgs = {1, 2, 3}
  ThreadOf <- MCThreadOf
  WithFiles = {1, 3}
  Approvals = {1, 2}
  MaxLive = 2
  Capacity = 2
  None = None
  Worlds <- MCWorlds
INVARIANTS
  NoGhost
  ApprovalsListed
CHECK_DEADLOCK FALSE
