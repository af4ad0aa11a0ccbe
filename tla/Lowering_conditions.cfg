SPECIFICATION Spec
CONSTANTS
  Functions <- OwnConditions
  MaxTests = 3
INVARIANT MeaningKept
CHECK_DEADLOCK FALSE
