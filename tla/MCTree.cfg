SPECIFICATION MCSpec
CONSTANTS
  a = a
  b = b
  c = c
  g = g
  f = f
  Task = {a, b, c}
  Container = {g, f}
  Root = f
  Children <- MCChildren
  DefaultComplete = {}
  RepeatEnd <- RepeatInner
  Trigger <- Chain
  CompleteTrigger <- SkipTask
  EventTrigger <- EventOfA
  Timed = {c}
  Refused = {a}
  Broken = {c}
  Failing = {a}
  Commands <- ScanCommands
INVARIANTS
  RunningIsVisible
  CompleteMeansDone
PROPERTIES
  RepeatKeepsRuns
  SuspendHoldsFromNextScan
