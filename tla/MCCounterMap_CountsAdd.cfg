\* Two walkers addInc into one class whose counter already exists (a
\* container from the stock), so no pushNewClass happens.
CONSTANTS
  w1 = w1  w2 = w2  k1 = k1  k2 = k2
  Threads <- MCThreads
  Classes <- MCClass1
  CountOps <- AddOnly
  MaxCells = 1
  MaxOps = 1
  Recycled = TRUE
  Exclusive = FALSE
SPECIFICATION Spec
INVARIANTS CountsAdd
