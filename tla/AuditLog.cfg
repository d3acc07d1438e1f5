SPECIFICATION Spec
CONSTANTS
  None = None
  Damaged = Damaged
  Writers = {w1, w2}
  Ids = {e1, e2}
  Fracs = {"whole", "milli"}
  MaxLines = 4
SYMMETRY LogSymmetry
INVARIANTS
  LoneWriterVerifies
  OverlapsAreSeen
  EditsAreDetected
PROPERTIES
  BrokenStaysBroken
\* Every writer stops at a damaged log.
CHECK_DEADLOCK FALSE
