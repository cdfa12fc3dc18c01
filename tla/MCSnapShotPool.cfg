\* Three snapshot threads sharing the stock queue of capacity 2.
CONSTANTS
  p1 = p1
  p2 = p2
  p3 = p3
  Threads <- MCThreads3
  MAX_STOCK_COUNT = 2
  MaxContainers = 5
  MaxCount = 1
SYMMETRY PoolSymmetry
SPECIFICATION Spec
INVARIANTS TypeOK ClearedMeansEmpty LiveBound
PROPERTIES AcquireGetsCleared
