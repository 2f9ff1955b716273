\* Two purchases, two concurrent deliveries, hosted calls; no symmetry: liveness.
CONSTANTS
  i1 = i1
  i2 = i2
  Intents = {i1, i2}
  EventIds = {1, 2, 3, 4}
  Events <- MCEvents
  Deliveries = {d1, d2}
  UsageKeys = {u1}
  OtherKeys <- MCOtherKeys
  None = None
  Spent = Spent
  MaxBalance = 6
  Credits = 2
  CallCost = 1
  MaxFailures = 1
SPECIFICATION FairSpec
INVARIANT TypeOK
INVARIANT AckedIsDurable
INVARIANT RefundFollowsGrant
PROPERTY ImplementsAccount
PROPERTY EventsSettle
CHECK_DEADLOCK FALSE
