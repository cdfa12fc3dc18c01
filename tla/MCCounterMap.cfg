\* Walkers never count one class at the same time; fresh container.
CONSTANTS
  w1 = w1  w2 = w2  k1 = k1  k2 = k2
  Threads <- MCThreads
  Classes <- MCClasses
  CountOps <- BothOps
  MaxCells = 3
  MaxOps = 2
  Recycled = FALSE
  Exclusive = TRUE
SPECIFICATION Spec
INVARIANTS TypeOK CountsAdd CountsNotInvented
PROPERTIES StableClassCounter
