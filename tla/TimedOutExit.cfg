CONSTANTS
  r1 = r1
  r2 = r2
  r3 = r3
  Runs = {r1}
  MaxSize = 1
SPECIFICATION Spec
INVARIANTS TimedOutHasNoExitCode
