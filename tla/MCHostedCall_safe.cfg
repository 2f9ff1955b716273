\* Two requests for two hosted calls at two prices, two other movements.
CONSTANTS
  Calls = {c1, c2}
  UsageKeys = {u1, u2}
  OtherKeys = {g1, g2}
  None = None
  Spent = Spent
  MaxBalance = 3
  Prices = {1, 2}
  Deltas <- MCDeltas
  MaxDeaths = 1
SPECIFICATION FairSpec
INVARIANT TypeOK
INVARIANT ProviderOnce
INVARIANT ChargedForWork
INVARIANT ChainValid
INVARIANT FundsCovered
PROPERTY ImplementsAccount
PROPERTY SavedIsCharged
CHECK_DEADLOCK FALSE
