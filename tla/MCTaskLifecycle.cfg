SPECIFICATION MCSpec
CONSTANTS
  a = a
  b = b
  c = c
  cpu = cpu
  disk = disk
  Task = {a, b, c}
  Limit = {cpu, disk}
  InLimits <- MCInLimits
  Tokens <- MCTokens
  MaxTokens = 2
  Capacity <- MCCapacity
  Unresolved = {}
  Subtree <- MCSubtree
  DefaultComplete <- MCDefaultComplete
  Repeating <- MCRepeating
  Rid = {r1}
  NoRid = NoRid
  MaxAttempts = 2
  Causes = {"manual", "recovery", "checkpoint_failure"}
  MaxFiles = 1
INVARIANTS
  LimitAccounting
  RunsAreRestorable
  RecoveryIsConsistent
