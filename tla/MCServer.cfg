SPECIFICATION MCSpec
CONSTANTS
  MAX_BACKGROUND_WRITES = 2
  MaxSequence = 5
  Faults = {}
  Deployment <- Deployments
  RpcCall = {"r"}
  WebCall = {"w"}
  DefaultPort = "p1"
  Blank = Blank
  NoFile = NoFile
  Gone = Gone
  LockedFile = LockedFile
  Nothing = Nothing
  Resting = Resting
INVARIANTS
  BackupIsRecent
  StatusIsHonest
  FinalIsLast
  
  ServesAsConfigured
  
  
PROPERTIES
  EveryChangeShows
  NeverOlder
  
  ReleaseIsDue
CHECK_DEADLOCK FALSE
