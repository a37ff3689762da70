SPECIFICATION Spec
CONSTANTS
  Base = Base
  Ultra = Ultra
  codex = codex
  Others = {codex}
  None = None
  Overlaps = TRUE
  Escalates = TRUE
  Toggles = "never"
INVARIANT WayBack
