CONSTANTS
  Texts <- MCTexts
  Untold = Untold
  LineChars = 2
  RunnerLines = {1, 3, 5}
  RunnerChars = 9
  CacheLines = 3
  CacheChars = 5
  BundleLines = 2
  DisplayLines = 1
SPECIFICATION OutputSpec

\* What has been told is not told again.
CHECK_DEADLOCK FALSE

INVARIANTS NothingLostSilently
