SPECIFICATION SerialSpec
CONSTANTS
  a1 = a1
  a2 = a2
  Approvers = {a1, a2}
  NoExpiry = NoExpiry
  NoRow = NoRow
  Handlers = {h1, h2}
  Ids = {i1}
  Needs <- MCNeeds
  Expiries = {0, 1}
  MaxTime = 3
SYMMETRY HandlerSymmetry
INVARIANTS
  SignoffsExact
PROPERTIES
  TerminalIsFinal
  DenialStands
  KeepsPromise
