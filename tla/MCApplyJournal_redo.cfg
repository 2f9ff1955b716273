SPECIFICATION Spec
CONSTANTS
  d1 = d1
  d2 = d2
  a = a
  b = b
  c = c
  t1 = t1
  t2 = t2
  t3 = t3
  None = None
  Dead = Dead
  Missing = Missing
  Docs = {d1}
  Contents = {a, b}
  Edits <- AnyOne
  TxIds = {t1, t2}
  MaxOrder = 2
  MaxProposals = 1
  Faults = {}
SYMMETRY Symmetry
INVARIANT RedoSkipsSuperseded
