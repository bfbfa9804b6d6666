SPECIFICATION FairSpec
CONSTANTS
  None = None
  Rows = {o1, o2, o3}
  Dispatchers = {d1, d2}
  BatchSize = 2
INVARIANTS
  OneHolder
  StampedIsAccountedFor
PROPERTIES
  RelaysAtMostOnce
  EveryEventIsClaimed
CHECK_DEADLOCK FALSE
