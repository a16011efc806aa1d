SPECIFICATION Spec
CONSTANTS
  Elem = {e1, e2, e3}
  List = {l1, l2}
  Null = Null
INVARIANTS
  Linked
  Separate
  ForeachVisitsAll
