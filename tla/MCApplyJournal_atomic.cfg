SPECIFICATION FairSpec
CONSTANTS
  d1 = d1
  d2 = d2
  a = a
  b = b
  c = c
  t1 = t1
  t2 = t2
  t3 = t3
  None = None
  Dead = Dead
  Missing = Missing
  Docs = {d1, d2}
  Contents = {a, b}
  Edits <- BothOrOne
  TxIds = {t1}
  MaxOrder = 1
  MaxProposals = 1
  Faults = {"clean"}
INVARIANT TypeOK
INVARIANT AckDurable
INVARIANT RejectedStaysRejected
PROPERTY ImplementsHistory
PROPERTY Recovers
