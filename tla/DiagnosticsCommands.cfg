CONSTANTS
  r1 = r1
  r2 = r2
  r3 = r3
  Files = {"f1", "f2"}
  ExampleFile = "f1"
  Runs = {r1, r2, r3}
  Commands = {"showDiagnosticsExample", "runDiagnosticsLive", "showNavigationExample", "runNavigationLive", "runVeribleLintDiagnostics"}
  Settings <- MCSettings
  Paths = {"absent", "option", "blank"}
  ToolEnds <- MCToolEnds
SPECIFICATION Spec
INVARIANTS CollectionIsLatest StatusMatchesItems
PROPERTIES LintSettles AbstractSpec
