SPECIFICATION Spec
CONSTANTS
  t1 = t1
  t2 = t2
  caf1 = caf1
  caf2 = caf2
  Thread = {t1, t2}
  Main = t1
  Caf = {caf1, caf2}
  Needs <- Pair
  Joined = FALSE
  None = None
CHECK_DEADLOCK FALSE
INVARIANT AliveInUse
