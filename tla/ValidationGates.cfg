CONSTANTS
  r1 = r1
  r2 = r2
  Runs = {r1, r2}
  Offered = {"pytestBaseline", "extensionHostSmokeOptIn"}
  Inputs <- MCInputs
SPECIFICATION Spec
SYMMETRY Symmetry

\* An invocation that has ended is not made again.
CHECK_DEADLOCK FALSE

INVARIANTS AuditForetellsRun ExecutedIsNamed
PROPERTIES ShownStaysAvailable
