SPECIFICATION Spec
CONSTANTS
  Threads = {t1, t2, t3}
  Objs = {o1, o2, o3, o4}
  SlabLen = 2
  MaxSlabs = 3
  MaxGen = 3
  Builds = {TRUE, FALSE}
  None = None
  Wild = Wild
SYMMETRY Symmetry
CHECK_DEADLOCK FALSE
INVARIANTS
  SlotsPartitioned
  RefsReachOrAreStale
PROPERTIES
  ImplementsStorage
