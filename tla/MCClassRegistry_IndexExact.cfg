\* A class may take the address of an unloaded class before the commit.
CONSTANTS
  w1 = w1
  w2 = w2
  p1 = p1
  p2 = p2
  p3 = p3
  Threads <- MCThreads
  Ptrs <- MCPtrs
  MaxRecords = 3
  MaxEvents = 6
  Reuse = TRUE
SYMMETRY MCSymmetry
SPECIFICATION Spec
INVARIANT IndexExact
