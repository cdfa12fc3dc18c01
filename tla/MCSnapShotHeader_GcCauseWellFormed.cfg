CONSTANTS
  garbage = garbage  unset = unset
  Garbage <- garbage
  Unset <- unset
  Vals <- MCVals
  CauseLens <- EmptyLens
  MaxCalls = 4
SPECIFICATION Spec
INVARIANTS GcCauseWellFormed
