\* Addresses of unloaded classes are not reused before commitClassChange.
CONSTANTS
  w1 = w1
  w2 = w2
  p1 = p1
  p2 = p2
  p3 = p3
  Threads <- MCThreads
  Ptrs <- MCPtrs
  MaxRecords = 3
  MaxEvents = 7
  Reuse = FALSE
SYMMETRY MCSymmetry
SPECIFICATION Spec
INVARIANTS TypeOK IndexExact
