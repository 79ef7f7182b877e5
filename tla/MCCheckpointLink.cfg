SPECIFICATION Spec
CONSTANTS
  MAX_BACKGROUND_WRITES = 2
  MaxSequence = 4
  Faults = {"pid_reused"}
INVARIANT MainIsComplete
