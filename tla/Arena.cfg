SPECIFICATION Spec
CONSTANTS
  Threads = {t1, t2}
  Slots = {s1}
  Sizes = {24}
  DefaultCapacity = 11
  MaxLive = 3
  MaxDepth = 4
  MaxRegions = 2
SYMMETRY Symmetric
INVARIANTS TypeOK LiveDisjoint PlansSurvive
