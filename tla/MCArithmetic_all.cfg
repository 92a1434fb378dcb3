SPECIFICATION Spec
CONSTANTS
  MachineBits = 8
  MachineInt = 4
  CharBits = 24
  LimitBits = 2
  NoCell = NoCell
  Names = {p, q, r}
  Cells = {c1, c2, c3}
  Literals <- MCLiterals
  MaxSize = 17
  Precision = 6
  MinExp <- MCMinExp
  MaxExp = 3
  MaxDigits = 3
  MaxMagnitude = 6
  PlainLow <- MCPlainLow
  PlainHigh = 2
  ByteBits = 2
  IntBits = 5
  MaxSteps = 130
SYMMETRY MCNames
INVARIANTS WordsExact DecimalsRoundTrip StringsAreCharacters BuffersKeepBytes JumpsAgree ProgramsExact ProgramsRead
CHECK_DEADLOCK FALSE
