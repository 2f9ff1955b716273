SPECIFICATION FairSpec
CONSTANTS
  p1 = p1
  p2 = p2
  p3 = p3
  d1 = d1
  t1 = t1
  t2 = t2
  None = None
  Procs = {p1, p2, d1}
  Departed = {d1}
  Tokens = {t1, t2}
  MaxCrashes = 1
INVARIANT TypeOK
INVARIANT ExclusiveUnlessRaced
INVARIANT NoResidue
PROPERTY SoloProgress
