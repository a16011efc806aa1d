SPECIFICATION Spec
CONSTANTS
  Seg = {0, 1, 2}
  Loadable = {0, 2}
  Page = {1, 2, 3}
  MaxFds = 3
  MaxHandles = 3
CHECK_DEADLOCK FALSE
INVARIANTS
  TypeOK
  LoadedIsWhole
  HeldStaysMapped
  NoDoubleFree
PROPERTIES
  DeleteReclaims
