SPECIFICATION Spec
CONSTANTS
  t1 = t1
  t2 = t2
  a = a
  b = b
  s = s
  r1 = r1
  r2 = r2
  r3 = r3
  r4 = r4
  r5 = r5
  Thread = {t1, t2}
  Main = t1
  Obj = {a}
  Static = {}
  Collected = {}
  Ref = {r1, r2, r3, r4}
  MaxCount = 3
  None = None
SYMMETRY Symmetry
PROPERTIES ImmortalFrozen
