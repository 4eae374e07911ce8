CONSTANTS
  Documents <- MCDocuments
  Alterable <- MCAlterable
  None = None
  FileOrder <- MCFileOrder
  MaxFiles = 2

SPECIFICATION Spec

\* A bundle that is built is not changed again.
CHECK_DEADLOCK FALSE

INVARIANTS AcceptedIsAvailable OnlySafeAvailable CountsAreTheDocuments ReportsAgree
