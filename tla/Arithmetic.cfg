SPECIFICATION TaskSpec
CONSTANTS
  MaxWidth = 3
  Codes <- MCCodes
  Values <- MCValues
  Asks <- MCAsks
  Start <- KnownStart
  Reads <- KnownReads
  Update <- KnownUpdate
  Materialize <- KnownMaterialize
  Edits <- MCEdits
  LimbBits = 2
  MaxLimbs = 4
  WordBits = 2
  WideWidths = {5, 6}
  RegBits = 8
  DivWidths = {3, 4, 8}
INVARIANTS AtFixpoint FactsSound FoldIsExact DivisionExact WideIntsExact ConstDivExact
PROPERTY RunEnds
CHECK_DEADLOCK FALSE
