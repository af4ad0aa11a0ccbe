SPECIFICATION Spec
CONSTANTS
  Functions <- MCFunctions
  MaxTests = 3
INVARIANTS MeaningKept CollisionsSuffice
CHECK_DEADLOCK FALSE
