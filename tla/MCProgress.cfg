SPECIFICATION MCSpec
CONSTANTS
  Task = {a}
  Limit = {cpu}
  InLimits <- MCInLimits
  Tokens <- MCTokens
  MaxTokens = 1
  Capacity <- MCCapacity
  Unresolved = {}
  Subtree <- MCSubtree
  DefaultComplete = {}
  Repeating = {}
  Rid = {r1}
  NoRid = NoRid
  MaxAttempts = 2
  Causes = {"manual"}
  External = {a}
  MaxPending = 2
  MaxRunning = 1
  Blank = Blank
  NoQuery = NoQuery
  NoPath = NoPath
  Missing = Missing
PROPERTIES
  SubmissionSettles
  FlowCompletes
  StopEnds
  AnswersCome
  CallEnds
CHECK_DEADLOCK FALSE
