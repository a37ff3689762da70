\* Two runs of one week, one patch suspicious, the other's router unrecorded;
\* the lock used as documented.
SPECIFICATION Spec
CONSTANTS
  None = None
  a = a
  b = b
  w1 = w1
  w2 = w2
  r1 = r1
  r2 = r2
  r3 = r3
  r4 = r4
  x = x
  y = y
  codex = codex
  other = other
  t1 = t1
  t2 = t2
  t3 = t3
  Procs = {a, b}
  Runs = {r1, r4}
  Weeks = {w1}
  Patches = {x, y}
  CleanPatches = {x}
  Models = {codex, other}
  Routes = {codex, other}
  CodexModels = {codex}
  Prompts = {t1, t3}
  RunWeek <- MCRunWeek
  RunPatch <- MCRunPatch
  JevModel <- MCRouted
  PromptVersion <- MCVersion
  Careless = FALSE
  CanCrash = TRUE
  Histories <- MCHistories
  Ranks <- MCRanks
  SampleLimit = 1
  CanFault = TRUE
SYMMETRY Symmetry
INVARIANTS TypeOK OneAtATime CallsAreApproved SentToIndependentModel
  StoredResultsAreValid PlansAreReproducible
