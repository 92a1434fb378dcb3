SPECIFICATION FairSpec
CONSTANTS
  t1 = t1
  t2 = t2
  a = a
  b = b
  s = s
  r1 = r1
  r2 = r2
  r3 = r3
  r4 = r4
  r5 = r5
  Thread = {t1, t2}
  Main = t1
  Obj = {a, b, s}
  Static = {s}
  Collected = {b}
  Ref = {r1, r2, r3, r4}
  MaxCount = 5
  None = None
INVARIANTS TypeOK NoDangling CountExact ExclusiveOwner PlainUpdatesAlone
PROPERTIES ImplementsOwnership TeardownFinishes
