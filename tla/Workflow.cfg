SPECIFICATION Spec
CONSTANTS
  Elements <- MCElements
  Cost <- MCCost
  Corpora <- MCCorpora
  LibraryCFIs <- MCLibraryCFIs
  TrainedScores = {10, 40}
  Prime = 5
  TotalEpsilon = 2
  RecipientDomains = {"procurement"}
  OrgCount = 4
  Duration = 90
  ReleaseDays = {1, 30}
  Delays = {14}
  IncidentDays = {45, 90}
INVARIANTS
  WorkflowTypeOK
  LocallyMinimal
  ReleasedIsClean
  ReleasedCompiles
  PipelineChargesOnce
  ReportedIsThere
  ContributionsRecover
PROPERTY CommandsEnd
