SPECIFICATION Spec
CONSTANTS
  Folders = {"inbox", "archive"}
  Procs = {"worker", "manual", "archiver"}
  FolderOf <- MCFolderOf
  Mail <- Pair
  Gone = Gone
  NoId = NoId
  NoSubj = NoSubj
  Window = 1
  UidMax = 3
  RecentLimit = 2
  Cutoff <- MCCutoff
  Now <- MCNow
  Scenarios <- Envs
INVARIANTS
  NothingSkipped
  NoStaleRow
  NoHalfRow
