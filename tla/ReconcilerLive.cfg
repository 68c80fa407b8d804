SPECIFICATION FairSpec
CONSTANTS
  Folders = {"inbox", "archive"}
  Procs = {"worker", "manual", "archiver"}
  FolderOf <- MCFolderOf
  Mail <- Fresh
  Gone = Gone
  NoId = NoId
  NoSubj = NoSubj
  Window = 1
  UidMax = 3
  RecentLimit = 2
  Cutoff <- MCCutoff
  Now <- MCNow
  Scenarios <- LiveEnvs
PROPERTIES
  EventuallyMirrored
  ResyncCompletes
