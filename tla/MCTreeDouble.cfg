SPECIFICATION Spec
CONSTANTS
  a = a
  b = b
  c = c
  g = g
  f = f
  Task = {a, b, c}
  Container = {g, f}
  Root = f
  Children <- MCChildren
  DefaultComplete = {g}
  RepeatEnd <- RepeatTwice
  Trigger <- None
  CompleteTrigger <- None
  EventTrigger <- None
  Timed = {}
  Refused = {}
  Broken = {}
  Failing = {}
  Commands <- ManualRun
PROPERTIES
  RepeatAdvancesOnce
