SPECIFICATION Spec
CONSTANTS
  Base = Base
  Ultra = Ultra
  codex = codex
  Others = {codex}
  None = None
  Overlaps = FALSE
  Escalates = TRUE
  Toggles = "never"
INVARIANT ManualChoiceStands
