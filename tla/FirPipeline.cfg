SPECIFICATION Spec
CONSTANTS
  f = f
  g = g
  h = h
  Funcs = {f, g, h}
  Callees <- MCCallees
  GlobalUsers = {g}
  Pipeline <- MCPipeline
  FuncPasses = {"lvn", "vec", "print"}
  Interprocedural = {"vec"}
  Unskippable = {"print"}
  Requests = {"Constraints", "MemorySSA"}
  Bisects <- MCBisects
  NoSkipClean = FALSE
  MaxEdits = 2
  NoSnap = NoSnap
INVARIANTS
  CacheIsFresh
  CleanMeansNoOp
