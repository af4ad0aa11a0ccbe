SPECIFICATION Spec
CONSTANTS
  Graphs <- MCGraphs
  Codes <- MCCodes
  Statements <- MCStatements
  Budgets = {2, 50}
INVARIANTS
  DominatorsAgreeWithPaths
  BuiltRight AnswerIsConservative LoadsSeeTheSlot
PROPERTY AnalysisEnds
CHECK_DEADLOCK FALSE
