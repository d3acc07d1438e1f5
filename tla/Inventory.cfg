SPECIFICATION InventorySpec
CONSTANTS
  Paths = {1, 2, 3}
  Kind <- MCKind
  Walk <- MCWalk
  Idioms <- MCIdioms
  FirstTexts <- MCFirstTexts
  Unnameable = {2}
  MaxFiles = 2
  MaxEdits = 1
  Procs = {p1}
  Unreadable = Unreadable
  NoFinding = NoFinding
  NoDraft = NoDraft
  Reviewed = Reviewed
  NoReport = NoReport
  Idle = Idle
INVARIANTS ScansMissNothing ExportsCoverFindings RatedScopesCovered
PROPERTY GrowthNeverCalms
