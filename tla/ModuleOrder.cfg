CONSTANTS
  Modules = {1, 2, 3, 4}
  FlawSets <- SomeFlaws
SPECIFICATION Spec
INVARIANTS DependencyFirst LevelsExact BlockedIsLargest BlockedByCycles
PROPERTIES AbstractSpec
CHECK_DEADLOCK FALSE
