SPECIFICATION Spec
CONSTANTS
  Requests <- Identity
INVARIANT
  SrcPreserved
