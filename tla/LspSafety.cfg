CONSTANTS
  c1 = c1
  c2 = c2
  c3 = c3
  d1 = d1
  d2 = d2
  Calls = {c1, c2, c3}
  Docs = {d1}
  DocOf <- OneDoc
  OwnIds = {}
  MaxGarbage = 0
SPECIFICATION Spec
SYMMETRY Symmetry
INVARIANTS NoLostCall AnswersBelong OpenBeforeAsk OpenedOnce
CHECK_DEADLOCK FALSE
