SPECIFICATION TableSpec
CONSTANTS
  None = None
  Damaged = Damaged
  Handlers = {h1, h2}
  EventIds <- MCIds
  TimeKinds = {"whole", "milli"}
  MaxSec = 2
  MaxEvents = 2
SYMMETRY HandlerSymmetry
INVARIANTS
  LinksAreCommitted
  PacedEventsVerify
