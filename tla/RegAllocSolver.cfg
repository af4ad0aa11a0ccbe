SPECIFICATION Spec
CONSTANTS
  Nodes <- MCNodes
  Domain <- MCDomain
  NodeCosts <- MCNodeCosts
  EdgeKinds <- MCEdgeKinds
  SaveClass <- MCSaveClass
  Crossing <- MCCrossing
  Inf = 100000
  Limit = 10000
INVARIANTS AdjacencyAgrees NoConflict ExactIsOptimal
PROPERTY Terminates
