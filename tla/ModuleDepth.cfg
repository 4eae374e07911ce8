CONSTANTS
  Modules = {1, 2, 3, 4}
  Graphs <- AllGraphs
SPECIFICATION Spec
INVARIANTS LevelsAreDistances UnplacedIsLargest
PROPERTIES AbstractSpec
CHECK_DEADLOCK FALSE
