SPECIFICATION MemoSpec
CONSTANTS
  t1 = t1
  t2 = t2
  caf1 = caf1
  caf2 = caf2
  caf3 = caf3
  caf4 = caf4
  c1 = c1
  c2 = c2
  c3 = c3
  c4 = c4
  Thread = {t1, t2}
  Main = t1
  Caf = {caf1, caf2, caf3, caf4}
  Cell = {c1, c2, c3, c4}
  Needs <- Knot
  CellNeeds <- ChainAndKnot
  Joined = TRUE
  None = None
CHECK_DEADLOCK FALSE
INVARIANTS MemoSound CycleIsReal ForcesAgree NothingLeaks
PROPERTIES CallsEnd
