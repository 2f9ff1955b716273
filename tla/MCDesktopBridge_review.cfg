\* Two projects, two preparations, two transactions, one entry left open by a
\* failed write or one change by others.
CONSTANTS
  Roots = {home, other}
  Home = home
  Preps = {p1, p2}
  None = None
  MaxTx = 2
  MaxTroubles = 1
SYMMETRY MCSymmetry
SPECIFICATION Spec
INVARIANT TypeOK
INVARIANT AppliedIsExact
INVARIANT NoApplyForgotten
INVARIANT EvidenceFollowsImport
PROPERTY ReviewIsKept
PROPERTY RetiredStaysRetired
CHECK_DEADLOCK FALSE
