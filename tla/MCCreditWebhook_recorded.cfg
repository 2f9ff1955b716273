\* A purchase refunded while another one tops the account up.
CONSTANTS
  i1 = i1
  i2 = i2
  Intents = {i1, i2}
  EventIds = {1, 2, 3, 4}
  Events <- MCRefundEvents
  Deliveries = {d1, d2}
  UsageKeys = {u1}
  OtherKeys <- MCOtherKeys
  None = None
  Spent = Spent
  MaxBalance = 4
  Credits = 2
  CallCost = 1
  MaxFailures = 0
SPECIFICATION Spec
CHECK_DEADLOCK FALSE
PROPERTY RecordedStaysRecorded
