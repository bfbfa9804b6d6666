SPECIFICATION FairSpec
CONSTANTS
  None = None
  Rows = {o1, o2}
  Dispatchers = {d1, d2}
  BatchSize = 2
PROPERTIES
  EveryEventIsRelayed
CHECK_DEADLOCK FALSE
