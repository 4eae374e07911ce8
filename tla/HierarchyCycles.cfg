CONSTANTS
  Modules = {1, 2, 3, 4}
  Instances = {1, 2, 3}
  Graphs <- MCGraphs
  RecursionLimits = {3, 6}
  InnerCalls = 2
SPECIFICATION Spec
INVARIANTS RowsAreCycles AllCyclesFound EachCycleOnce FirstInstances FoundInOrder FailsOnlyOnLongChains
CHECK_DEADLOCK FALSE
