SPECIFICATION Spec
CONSTANTS
  t1 = t1
  t2 = t2
  t3 = t3
  Thread = {t1, t2, t3}
  Ops = {"take", "put", "read"}
  Initial = None
  MaxUpdate = 0
  None = None
CHECK_DEADLOCK FALSE
INVARIANT NobodyForgotten
