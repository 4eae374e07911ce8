CONSTANTS
  c1 = c1
  c2 = c2
  c3 = c3
  d1 = d1
  d2 = d2
  Calls = {c1, c2}
  Docs = {d1}
  DocOf <- OneDoc
  OwnIds = {2}
  MaxGarbage = 1
SPECIFICATION Spec
INVARIANTS InitializedServerAlive
PROPERTIES EveryCallSettles AbstractSpec
CHECK_DEADLOCK FALSE
