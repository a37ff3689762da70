\* Two attempts, two messages each, one signal; the runner ends.
SPECIFICATION Spec
CONSTANTS
  Attempts = 2
  MaxMessages = 2
  PipeSize = 1
  MaxSignals = 1
  Gaps = TRUE
  Part = Part
  None = None
INVARIANT NoSurvivors
CHECK_DEADLOCK FALSE
