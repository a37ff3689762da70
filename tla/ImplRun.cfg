SPECIFICATION Spec
CONSTANTS
  None = None
  Alive = Alive
  MaxFinite = 3
  Lines <- MCLines
  MaxLines = 3
  ExitCodes = {0, 1}
  Provenances <- MCProvenances
  OtherRuns <- MCOtherRuns
  Setters = {"a"}
INVARIANTS
  MetadataIsValid
  RecordIsTrue
  ResultIsKept
  ReportIsFair
PROPERTIES
  HelperEnds
CHECK_DEADLOCK FALSE
