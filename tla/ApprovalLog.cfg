SPECIFICATION Spec
CONSTANTS
  a1 = a1
  a2 = a2
  Approvers = {a1, a2}
  NoExpiry = NoExpiry
  NoRow = NoRow
  Damaged = Damaged
  Procs = {p1, p2}
  Ids = {i1}
  Needs <- MCNeeds
  Expiries = {0}
  MaxTime = 1
  MaxLines = 3
  MaxActs = 1
SYMMETRY ProcSymmetry
INVARIANTS
  HistoryIsLawful
  ActsAreCleared
  AuditTellsAll
PROPERTIES
  DamageFailsClosed
  FollowsUnlessRaced
