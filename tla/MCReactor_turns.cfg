SPECIFICATION FairSpec
CONSTANTS
  Programs <- MCPrograms
  MaxWorkers = 2
  ChainLength = 2
  StepBudget = 2
  MaxInterrupts = 1
  None = None
INVARIANTS NobodySleepsOnWork ResultsArrive
PROPERTIES RunEnds
CHECK_DEADLOCK FALSE
