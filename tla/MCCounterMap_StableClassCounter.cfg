\* Two walkers meet new objects of one class at once; fresh container.
CONSTANTS
  w1 = w1  w2 = w2  k1 = k1  k2 = k2
  Threads <- MCThreads
  Classes <- MCClass1
  CountOps <- BothOps
  MaxCells = 2
  MaxOps = 1
  Recycled = FALSE
  Exclusive = FALSE
SPECIFICATION Spec
PROPERTIES StableClassCounter
