SPECIFICATION ServerSpec
CONSTANTS
  Deployment <- FailFast
  RpcCall = {"r"}
  WebCall = {"w"}
  DefaultPort = "p1"
  Blank = Blank
PROPERTIES
  FatalStopEnds
CHECK_DEADLOCK FALSE
