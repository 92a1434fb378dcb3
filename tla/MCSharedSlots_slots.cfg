SPECIFICATION Spec
CONSTANTS
  t1 = t1
  t2 = t2
  a = a
  b = b
  c = c
  s1 = s1
  s2 = s2
  s3 = s3
  Thread = {t1, t2}
  Slot = {s1, s2, s3}
  Items = {s2, s3}
  Val = {a, b, c}
  MaxHeld = 1
  MaxBirth = 2
  None = None
SYMMETRY Symmetry
CONSTRAINT Bounded
INVARIANTS NoStaleValue Balance
