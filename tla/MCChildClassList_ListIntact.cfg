\* Walkers not partitioned: two may scan and promote on one list at once.
CONSTANTS
  t1 = t1
  t2 = t2
  c1 = c1
  c2 = c2
  c3 = c3
  NoClass = NoClass
  Threads <- MCThreads
  Classes <- MCClasses3
  MaxNodes = 4
  MaxLookups = 3
  Partitioned = FALSE
SPECIFICATION Spec
INVARIANTS ListIntact
