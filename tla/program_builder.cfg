SPECIFICATION Spec
CONSTANTS
  MaxFunctions = 2
  MaxBlocks = 3
  MaxInstructions = 2
  MaxEdges = 2
INVARIANTS TypeOK Reciprocal ListsExact
PROPERTIES BuildsGraph
CHECK_DEADLOCK FALSE
