SPECIFICATION Spec
CONSTANTS
  o1 = o1
  o2 = o2
  o3 = o3
  o4 = o4
  w1 = w1
  w2 = w2
  Main = main
  Objects <- MCObjects
  Start <- MCStart
  Workers <- MCWorkers
  MaxPasses = 1
  MaxSuffixes = 2
INVARIANT NameIsFree
CHECK_DEADLOCK FALSE
