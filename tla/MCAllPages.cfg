SPECIFICATION FairSpec
CONSTANTS
  MaxAddr = 5
  Tpe = {"Shared", "Confidential"}
INVARIANTS
  TypeOK
  SortedAndMerged
PROPERTIES
  AbstractSpec
  RejectsOnlyOverlap
  Terminates
