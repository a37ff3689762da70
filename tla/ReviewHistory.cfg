SPECIFICATION Spec
CONSTANTS
  AutoLevel = AutoLevel
  None = None
  Part = Part
  Execs = {"e1", "e2"}
  RunId = "run"
  OtherDirs <- MCOtherDirs
  Savers = {s1, s2}
  s1 = s1
  s2 = s2
  Plans <- MCPlans
  Sized <- MCSized
  Answers <- MCAnswers
  Thresholds = {60}
  Decisions <- MCDecisions
  Scales <- MCScales
  LegacyRuns <- MCLegacyRuns
  Judgements <- MCJudgements
  Verbose = {"e1"}
  Actors = {"agent"}
  ExitCodes = {0, 124}
  Patches <- MCPatches
  MaxSaves = 2
  MaxClock = 1
SYMMETRY MCSymmetry
INVARIANTS
  HistoryIsCoherent
  SavableUnlessTorn
  LatestIsUsed
  ReportIsSound
  DecisionsHold
