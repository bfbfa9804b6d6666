SPECIFICATION RetrySpec
CONSTANTS
  e1 = e1
  e2 = e2
  e3 = e3
  e4 = e4
  r1 = r1
  r2 = r2
  j1 = j1
  j2 = j2
  None = None
  Events = {e1}
  EventStatus <- MCOnePaid
  Refunds = {r1, r2}
  Jobs = {j1}
  Admins = {a1}
  Amount = 1
PROPERTIES
  DeclinedRefundCanBeRetried
CHECK_DEADLOCK FALSE
