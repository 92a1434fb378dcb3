SPECIFICATION Spec
CONSTANTS
  t1 = t1
  t2 = t2
  Threads = {t1, t2}
  Arity <- MCArity
  FastArity = 2
  Atoms = {"a", "b"}
  Cells = {"c1", "c2", "c3", "c4", "c5"}
  First = "c1"
  StaticClosures <- MCStatics
  StartClosures <- MCStart
  StartHands <- MCHands
  MaxHand = 3
  MaxCalls = 3
  MaxRuns = 2
INVARIANTS
  ValuesPersist
  CountsExact
  StackFlat
