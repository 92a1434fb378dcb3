SPECIFICATION ExchangeSpec
CONSTANTS
  t1 = t1
  t2 = t2
  t3 = t3
  n1 = n1
  n2 = n2
  n3 = n3
  v1 = v1
  v2 = v2
  Thread = {t1, t2, t3}
  Node = {n1, n2, n3}
  Value = {v1, v2}
  Ops = {"take", "tryTake", "modify", "with", "read", "swap", "put", "tryPut"}
  Initial = 0
  MaxUpdate = 2
  None = None
INVARIANTS ChannelSound MVarSound
PROPERTIES ImplementsQueue FunctionPutsBack
