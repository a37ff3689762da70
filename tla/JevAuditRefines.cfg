\* The same patch in two weeks; processes die and the lock can vanish.
SPECIFICATION Spec
CONSTANTS
  None = None
  a = a
  b = b
  w1 = w1
  w2 = w2
  r1 = r1
  r2 = r2
  r3 = r3
  r4 = r4
  x = x
  y = y
  codex = codex
  other = other
  t1 = t1
  t2 = t2
  t3 = t3
  Procs = {a, b}
  Runs = {r1, r2}
  Weeks = {w1, w2}
  Patches = {x}
  CleanPatches = {x}
  Models = {codex}
  Routes = {other}
  CodexModels = {codex}
  Prompts = {t1}
  RunWeek <- MCRunWeek
  RunPatch <- MCRunPatch
  JevModel <- MCJevModel
  PromptVersion <- MCVersion
  Careless = TRUE
  CanCrash = TRUE
  Histories = {}
  Ranks = {}
  SampleLimit = 1
  CanFault = FALSE
SYMMETRY Symmetry
PROPERTIES ReportsStand AsksOnce
