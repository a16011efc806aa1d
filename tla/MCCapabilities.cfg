SPECIFICATION Spec
CONSTANTS
  h1 = h1
  h2 = h2
  h3 = h3
  h4 = h4
  r1 = r1
  r2 = r2
  r3 = r3
  d1 = d1
  d2 = d2
  c1 = c1
  c2 = c2
  None = None
  MaxAddr = 4
  Boot <- MCBoot
  Handle <- MCHandle
  RevHandle <- MCRevHandle
  Domain = {d1, d2}
  Caller = {c1}
  Serialised = TRUE
  Ranges <- MCRanges
  Tpe = {"SharedRW", "Confidential"}
SYMMETRY Symmetry
CHECK_DEADLOCK FALSE
INVARIANTS
  TypeOK
  MirrorsMonitor
  ListIsLive
  StatusMatchesRevoks
  MemoryConserved
  AccessNeverGrows
  NoUseAfterFree
PROPERTIES
  RevokedMeansGone
  TransferIsExact
  TableSpec
