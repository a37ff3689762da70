\* Two attempts, two messages each, one signal; the runner ends.
SPECIFICATION FairSpec
CONSTANTS
  Attempts = 2
  MaxMessages = 2
  PipeSize = 1
  MaxSignals = 1
  Gaps = FALSE
  Part = Part
  None = None
INVARIANTS NoSurvivors InterruptionIsTimeout AttemptsAreApart SuccessIsTheLastMessage
PROPERTY Terminates
CHECK_DEADLOCK FALSE
