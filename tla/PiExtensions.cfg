\* Three directories, two titles, three refreshes, two sessions with two
\* notes; for auto-continue one run at a time, in both load orders.
SPECIFICATION MCSpec
CONSTANTS
  Base = Base
  Ultra = Ultra
  codex = codex
  Others = {codex}
  None = None
  Overlaps = FALSE
  Escalates = FALSE
  Toggles = "quiet"
  d1 = d1
  d2 = d2
  d3 = d3
  Dirs = {d1, d2, d3}
  Nowhere = Nowhere
  t1 = t1
  t2 = t2
  n1 = n1
  Titles = {t1, t2}
  Names = {t1, n1}
  Unnamed = Unnamed
  MaxRefresh = 3
  s1 = s1
  s2 = s2
  Sessions = {s1, s2}
  Notes = {t1, n1}
INVARIANTS WayBack ManualChoiceStands ExpectationIsAwaited
  ManualNameStands OnlyTheNewestCounts SavedNotesSurvive
PROPERTIES ContinuesOnce WorkContinues DispatchesThePromised PromiseIsKept QueriesEnd
CHECK_DEADLOCK FALSE
