SPECIFICATION GatewayFairSpec
CONSTANTS
  a1 = a1
  Approvers = {a1}
  NoExpiry = NoExpiry
  NoRow = NoRow
  NoResponse = NoResponse
  Handlers = {h1, h2}
  Ids = {i1}
  Needs <- MCNamed
  Expiries = {0}
  MaxTime = 1
  MaxActs = 2
INVARIANTS
  OnlyClearedAct
  ActsAccountedFor
PROPERTIES
  OnlyRacesOverwriteTerminal
  OnlyRacesLoseSignoffs
  RecordedIsFinal
  RequestsFinish
