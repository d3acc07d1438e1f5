SPECIFICATION Spec
CONSTANTS
  Procs = {p1, p2}
  Agents = {a1, a2}
  Scopes = {s1}
  Canonical = {1}
  Discovered = {2}
  Keys = {k1}
  KeyIds = {i1}
  NoKey = NoKey
  Bad = Bad
  NoSig = NoSig
  Absent = Absent
  Damaged = Damaged
  Drafts <- MCDrafts
  MaxChanges = 2
  MaxSigned = 1
SYMMETRY MCSymmetry
INVARIANTS
  IndexIsTrue
  SignaturesTellTruth
  AnswersAreCurrent
PROPERTIES
  DraftsReplaceOnlyNewcomers
