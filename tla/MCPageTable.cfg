SPECIFICATION Spec
CONSTANTS
  Levels = 3
  Entries = 2
  Frame = {f1, f2, f3, f4}
  Layouts <- Legal
CHECK_DEADLOCK FALSE
INVARIANTS
  TypeOK
  MapsWhatWasCollected
  TablesFormATree
  MappedIsGranted
PROPERTIES
  Terminates
