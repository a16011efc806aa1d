SPECIFICATION Spec
CONSTANTS
  Task = {t1, t2}
  Pid = {p1, p2}
  Obj = {o1, o2}
  Dom = {d1, d2}
  UserPage = {1}
  PtPage = {2, 3}
  MaxPage = 3
  Asked <- AnyType
  MaxIds = 2
  None = None
SYMMETRY Symmetry
CHECK_DEADLOCK FALSE
INVARIANT
  GrantedIsNotFree
