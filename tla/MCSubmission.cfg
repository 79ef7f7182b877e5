SPECIFICATION MCSpec
CONSTANTS
  Task = {a}
  Limit = {cpu}
  InLimits <- MCInLimits
  Tokens <- MCTokens
  MaxTokens = 1
  Capacity <- MCCapacity
  Unresolved = {}
  Subtree <- MCSubtree
  DefaultComplete = {}
  Repeating <- MCSubtree
  Rid = {r1}
  NoRid = NoRid
  MaxAttempts = 3
  Causes = {"manual", "recovery", "checkpoint_failure"}
  External = {a}
  MaxPending = 2
  MaxRunning = 1
INVARIANTS
  SubmissionsAccounted
PROPERTIES
  OnlyCurrentActs
  
  FinishedStaysFinished
  
