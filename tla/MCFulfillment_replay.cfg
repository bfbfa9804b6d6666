SPECIFICATION Spec
CONSTANTS
  None = None
  o1 = o1
  i1 = i1
  i2 = i2
  d1 = d1
  d2 = d2
  c1 = c1
  c2 = c2
  Orders = {o1}
  Items = {i1, i2}
  OrderOf <- MCOneOrder
  CodeItems = {i1}
  Codes = {c1}
  Deliveries = {d1, d2}
  OrderOfJob <- MCOneJob
INVARIANTS
  ReplaysAreSafe
CHECK_DEADLOCK FALSE
