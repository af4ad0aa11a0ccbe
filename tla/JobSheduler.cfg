SPECIFICATION FairSpec
CONSTANTS
  w1 = w1  w2 = w2
  main = main
  j1 = j1
  c1 = c1
  Workers = {w1, w2}
  Main = main
  Tasks = {j1}
  Calls = {c1}
  MaxN = 2
  NoJob = NoJob
INVARIANTS
  Accounting
  DrainedMeansDone
  FnOutlivesUse
  EachIndexOnce
  NothingThrownAway
PROPERTIES
  EveryTaskRuns
  WaitsReturn
