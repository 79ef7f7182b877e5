SPECIFICATION MCSpec
CONSTANTS
  a = a
  b = b
  NoQuery = NoQuery
  NoPath = NoPath
  Resting = Resting
  Caller = {c1, c2}
  Task = {a, b}
  Reporting = {a}
  Started <- MCStarted
  Missing = Missing
  Rid = {r1, r2}
  NoRid = NoRid
  Window <- MCWindow
  MaxBackoff = 2
  Configs <- MCConfigs
  Requests = {"init", "complete", "run", "ping"}
  Batches <- MCBatches
  MaxAttempts = 4
SYMMETRY Callers
INVARIANTS
  AppliedAtMostOnce
  ExitTellsTruth
  
  CallsArriveAsMeant
  
PROPERTIES
  OwnReportTakesEffect
  ShownFollows
CHECK_DEADLOCK FALSE
