CONSTANTS
  r1 = r1
  r2 = r2
  r3 = r3
  Runs = {r1, r2, r3}
  MaxSize = 2
SPECIFICATION Spec
INVARIANTS CacheHoldsLatest ContextCarriesLatest OutputNamesItsRun
PROPERTIES EveryRunSettles
