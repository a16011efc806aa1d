SPECIFICATION Spec
CONSTANTS
  Task = {t1, t2}
  Pid = {p1, p2}
  Obj = {o1, o2}
  Dom = {d1, d2}
  UserPage = {1}
  PtPage = {2}
  MaxPage = 2
  Asked <- AnyType
  MaxIds = 2
  None = None
SYMMETRY Symmetry
CONSTRAINT OneRegion
CHECK_DEADLOCK FALSE
INVARIANTS
  TypeOK
  GrantsAreTracked
  NoTwoOnOne
  SealedEntersItself
PROPERTIES
  DeleteReleasesAll
  SealedHoldsItsMemory
