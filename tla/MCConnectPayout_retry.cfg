\* One sale, one key, retries at another time.
CONSTANTS
  Requests = {r1}
  Onboardings = {o1}
  PayoutKeys = {k1}
  LinkKeys = {l1}
  Sales = {s1}
  Accounts = {a1}
  Times = {1, 2}
  MaxObservations = 1
  None = None
SPECIFICATION Spec
CHECK_DEADLOCK FALSE
INVARIANT RetryFindsOutcome
