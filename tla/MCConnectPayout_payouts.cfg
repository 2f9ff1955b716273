\* Two payout requests at once, each slot used again and again, and two onboardings.
CONSTANTS
  Requests = {r1, r2}
  Onboardings = {o1, o2}
  PayoutKeys = {k1, k2}
  LinkKeys = {l1, l2}
  Sales = {s1, s2}
  Accounts = {a1, a2}
  Times = {1, 2}
  MaxObservations = 1
  None = None
SYMMETRY MCSymmetry
SPECIFICATION Spec
INVARIANT TypeOK
INVARIANT OnePayoutPerSale
INVARIANT OutcomeIsTrue
INVARIANT PaidIsRecorded
INVARIANT OneAccount
CHECK_DEADLOCK FALSE
