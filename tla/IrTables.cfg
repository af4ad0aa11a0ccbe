SPECIFICATION TablesSpec
CONSTANTS
  o1 = o1
  o2 = o2
  o3 = o3
  o4 = o4
  Main = main
  Objects <- MCObjects
  Start <- MCStart
  Workers = {}
  MaxPasses = 4
  MaxSuffixes = 3
  Instrs <- MCInstrs
  Blocks <- MCBlocks
  BlockArgs <- MCBlockArgs
  i1 = i1
  i2 = i2
  b1 = b1
  b2 = b2
  p1 = p1
  Untracked = {}
  Invalid = invalid
  MaxOperands = 4
SYMMETRY Symmetry
INVARIANTS InSync LoopsSeeLiveFunctions NoFunctionPassedOver UsesMatchOperands
PROPERTY ReplaceIsTotal
