SPECIFICATION Spec
CONSTANTS
  h1 = h1
  h2 = h2
  h3 = h3
  h4 = h4
  r1 = r1
  r2 = r2
  r3 = r3
  d1 = d1
  d2 = d2
  c1 = c1
  c2 = c2
  None = None
  MaxAddr = 2
  Boot <- MCBootTwo
  Handle <- MCHandleTwo
  RevHandle = {r1, r2}
  Domain = {d1}
  Caller = {c1, c2}
  Serialised = FALSE
  Ranges <- MCRangesTwo
  Tpe = {"SharedRW", "Confidential"}
SYMMETRY SymmetryTwo
CHECK_DEADLOCK FALSE
INVARIANT
  MemoryConserved
