SPECIFICATION Spec
CONSTANTS
  None = None
  Damaged = Damaged
  Writers = {w1, w2}
  Ids = {e1, e2}
  Fracs = {"whole", "milli", "submilli"}
  MaxLines = 3
SYMMETRY LogSymmetry
\* Every writer stops at a damaged log.
CHECK_DEADLOCK FALSE
INVARIANT LoneWriterVerifies
