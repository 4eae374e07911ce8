CONSTANTS
  Modules = {1, 2, 3, 4}
  Graphs <- Binary
SPECIFICATION WalkSpec
INVARIANTS ReachableExact MarkersOnCycles MarkersDetectCycles
CHECK_DEADLOCK FALSE
