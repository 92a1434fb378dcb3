SPECIFICATION FairSpec
CONSTANTS
  root = root
  c1 = c1
  c2 = c2
  a = a
  b = b
  c = c
  o1 = o1
  f1 = f1
  Scope = {root, c1, c2}
  Root = root
  Strand = {a, b, c}
  Op = {o1}
  Handoffs = {o1}
  Fin = {f1}
  Owned = {c}
  MaxCalls = 2
  None = None
CHECK_DEADLOCK FALSE
INVARIANTS OneContinuation HandoffExactlyOnce NoOrphans
PROPERTIES CancelTakesAll HandoffSettles
