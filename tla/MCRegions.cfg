SPECIFICATION Spec
CONSTANTS
  Requests <- Segments
INVARIANTS
  TypeOK
  NoOverlapAccepted
  Sorted
  CoversAccepted
PROPERTY
  Terminates
