SPECIFICATION Spec
CONSTANTS
  a = a
  b = b
  c = c
  d = d
  s1 = s1
  s2 = s2
  root = root
  Op = {a, b, c, d}
  Scope = {s1, s2}
  Root = root
  ScopeOf <- ScopeOfOp
  Programs <- OnePrimitive
  Need <- Amount
  Capacity = 1
  Permits = 2
  None = None
CHECK_DEADLOCK FALSE
INVARIANTS NothingLost LinesExact
PROPERTIES ServedInOrder
