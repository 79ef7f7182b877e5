SPECIFICATION MCSpec
CONSTANTS
  MaxChanges = 1
  MaxBatches = 2
  MaxRetained = 3
  FlowName = {"f"}
  ChildName = {"t"}
  Value = {0, 1}
  Unfit = {}
  Shapes <- OneTask
  Mutations <- Writes
  MaxPending = 2
  MaxRevision = 3
  MaxId = 5
  Selections <- TreeAndFlow
  PageNodes = 1
  NoView = NoView
  NoCall = NoCall
  NoPage = NoPage
  NoReply = NoReply
  Resting = Resting
  MaxSession = 2
  Reader = {"r1", "r2", "r3"}
  Owner = {"a", "b"}
  OwnerOf <- TwoOwners
  Scopes = {"s"}
  MaxSnapshots = 2
  MaxOwnerSnapshots = 1
  MaxReaders = 2
  MaxRoots = 1
  MaxWorkers = 1
  MaxLeases = 1
  MaxOwnerLeases = 1
  MaxVersion = 1
INVARIANTS
  
  SharingIsExact
  
PROPERTIES
  ImplementsContract
  
CHECK_DEADLOCK FALSE
