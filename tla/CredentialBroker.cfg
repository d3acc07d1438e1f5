SPECIFICATION Spec
CONSTANTS
  Handlers = {h1, h2}
  Creds = {c1}
  Requests = {r1}
  Durations = {2, NoDuration}
  NoDuration = NoDuration
  DefaultTtl = 1
  MaxDuration = 1
  TicksPerSec = 2
  MaxTime = 3
  None = None
SYMMETRY ThreadSymmetry
INVARIANTS
  StatusIsAudited
  DashboardAgrees
PROPERTIES
  MintsAreCleared
  ClosedStaysClosed
  NeverOutlives
